---- MODULE Spec2Model ----
(***************************************************************************)
(* State-machine model of the token fetch engine of                        *)
(* src/core/token_fetcher.py (distribution mode).                          *)
(*                                                                         *)
(* Scheduling: the engine is one asyncio event loop.  A task runs from one *)
(* suspension point (an await that really suspends: a sleep, a network     *)
(* request, a gather) to the next without interleaving, so every action    *)
(* below is one such run.  `async with self.lock` in handle_rate_limit     *)
(* never suspends, because the lock is only ever held across code without  *)
(* an await.  Cancellation (per-item timeout, region timeout) is delivered *)
(* at a suspension point and is not caught by `except Exception`.          *)
(*                                                                         *)
(* Time is abstracted: a timeout may fire at any suspension point, a       *)
(* response may be any status.                                             *)
(***************************************************************************)
EXTENDS Integers, Sequences, FiniteSets, TLC

VARIABLES
    region_idx,        \* run_token_fetch: index of the account file being processed
    account_files,     \* input: per account file, the number of valid records in it
    phase,             \* where the run is: "Idle" (between regions), "Fetching",
                       \* "Aggregating", "Finished"; "Distributing", "Distributed" in DistSpec
    valid_accounts,    \* process_region: valid_accounts (records are opaque ids)
    api_distribution,  \* process_region: result of distribute_accounts_across_apis
    stats,             \* the shared stats dict
    rate_limit_manager,\* stats['rate_limit_manager']: the region's RateLimitManager
    pause_event,       \* process_region: pause_event (asyncio.Event) of the region
    api_pc,            \* process_api_batch, per endpoint: where the coroutine is
    batch_idx,         \* process_api_batch, per endpoint: batch_idx of the loop
    pc,                \* per record: where its bounded_fetch / fetch_token is
    attempt,           \* fetch_token, per record: loop variable attempt (0 without a frame)
    region_timed_out,  \* process_region: the except asyncio.TimeoutError branch ran
    reported,          \* history: handle_rate_limit has been called in this region
    firsts,            \* history: handle_rate_limit calls of this region that returned True
    pauses,            \* history: pause_event.set() calls of this region
    results,           \* process_region: results, per record its token or 0 for None
    token_files,       \* TOKENS_DIR: the regions whose local token file exists
    pushed,            \* the token lists handed to push_to_github by this region
    push_ok,           \* what push_to_github returned to this region ("none" before)
    run_results,       \* run_token_fetch: results, the Region Results so far
    sent,              \* history, per record: the endpoints a GET of it went to
    requests,          \* history, per record: GETs issued by its running fetch_token
    now,               \* TimedSpec: seconds since the record's wait_for started
    gh,                \* PushSpec: a push_to_github call and the content store
    tracker,           \* TrackSpec: track_progress and the events it has logged
    loaded_accounts,   \* FilterSpec: process_region: accounts, the loaded entries
    callbacks,         \* history: the on_region_complete calls of the run
    host,              \* HostSpec: app.py: job_state, its threads and requests
    logs,              \* LogSpec: the LogCollector and a stream_logs client
    fb,                \* FallbackSpec: app_for_terminal.fetch_token for one record
    backoff            \* BackoffSpec: the delay computed before an attempt

aggVars == <<results, token_files, pushed, push_ok, run_results>>

auxVars == <<loaded_accounts, callbacks, host, logs, fb, backoff>>

vars == <<region_idx, account_files, phase, valid_accounts, api_distribution,
          stats, rate_limit_manager, pause_event, api_pc, batch_idx, pc,
          attempt, region_timed_out, reported, firsts, pauses,
          aggVars, sent, requests, now, gh, tracker, auxVars>>

----------------------------------------------------------------------------
(* Bounds of the model *)

NumRegions == 2      \* account files found by run_token_fetch
MaxRecords == 4      \* valid records per region
MaxRunRecords == 5   \* valid records of all regions of a run together
MaxAccounts == 5     \* DistSpec: length of the list handed to the distributor
\* Scaled program constants: 15 and 30 in the source.
MAX_RETRIES == 2
BATCH_SIZE == 1
\* 30 in the source, the same value as BATCH_SIZE; the model keeps them equal.
MAX_CONCURRENT_PER_API == BATCH_SIZE

(* Program constants of the timed model (TimedSpec), in seconds *)

CONFIGURED_MAX_RETRIES == 15   \* MAX_RETRIES, unscaled
INITIAL_DELAY == 5
MAX_DELAY == 120
JITTER == 5                    \* random.uniform(0, 5)
PAUSE_SECONDS == 5             \* asyncio.sleep(5) of the pausing worker
REQUEST_TIMEOUT == 30          \* session.get(..., timeout=30)
ITEM_TIMEOUT == 180            \* fetch_token_with_timeout(..., timeout=180)

(* Configuration *)

\* The variables gh and tracker where no push_to_github call and no
\* track_progress task is modelled.
GhIdle ==
    [token |-> TRUE, reliable |-> TRUE, call |-> 1, pc |-> "idle",
     attempt |-> 0, sha |-> 0, read_at |-> -1, put_sha |-> 0,
     puts |-> 0, gets |-> 0, oks |-> 0, ret |-> "none", ret1 |-> "none",
     last_status |-> "none", marker_at_read |-> 0,
     marker |-> 0, content |-> "nothing", others |-> 0]

TrackerIdle ==
    [pc |-> "none", last_logged_progress |-> -1, last_sample |-> -1,
     events |-> << >>, final |-> FALSE]

\* The variables of the other specifications where the part of the program
\* they belong to is not modelled.
\* job_state at import: status idle; no request to /api/run has arrived.
\* pc is where the request, and the job it started, stands; outcome is how
\* the job's run_token_fetch ended.
MaxTriggers == 2
Triggers == 1..MaxTriggers
HostIdle ==
    [status |-> "idle", IS_SERVERLESS |-> FALSE,
     pc |-> [t \in Triggers |-> "none"],
     outcome |-> [t \in Triggers |-> "none"]]
\* An empty LogCollector; added counts the calls of add, and an entry is the
\* number of the call that added it.  last_count and delivered belong to one
\* client of the log stream: the generator's counter and what it has yielded.
LogsIdle ==
    [logs |-> << >>, added |-> 0, last_count |-> 0, delivered |-> << >>]
FbIdle ==
    [pc |-> "none", attempt |-> 0, api_index |-> 0, sent |-> << >>,
     failures |-> << >>, ret |-> "none"]
BackoffIdle ==
    [pc |-> "none", who |-> "none", attempt |-> 0, delay |-> 0]

AuxIdle ==
    /\ loaded_accounts = << >>
    /\ callbacks = << >>
    /\ host = HostIdle
    /\ logs = LogsIdle
    /\ fb = FbIdle
    /\ backoff = BackoffIdle

API_URLS == <<"jwt.tsunstudio.pw", "tsun-ff-jwt-api.onrender.com",
              "jwt-tsunstudio.onrender.com">>

Apis == 1..Len(API_URLS)
Records == 1..MaxRecords

\* What one GET can come back with: 200 with a token, 200 without one, 429,
\* 500, another status, or an exception (connection, timeout, decode).
Responses == {"token", "no_token", "429", "500", "other", "error"}

----------------------------------------------------------------------------
(* distribute_accounts_across_apis *)

\* group_size of endpoint i (1-based here, so the code's `i < remainder` is i-1).
GroupSize_offbyone(i, total) ==
    (total \div Len(API_URLS)) + (IF i - 1 <= total % Len(API_URLS) THEN 1 ELSE 0)

GroupSize(i, total) ==
    (total \div Len(API_URLS)) + (IF i - 1 < total % Len(API_URLS) THEN 1 ELSE 0)

\* start_idx when the loop reaches endpoint i.
RECURSIVE StartIdx(_, _)
StartIdx(i, total) ==
    IF i = 1 THEN 0 ELSE StartIdx(i - 1, total) + GroupSize(i - 1, total)

\* Python's accounts[a:b]: clamped to the list.
Slice(s, a, b) ==
    LET lo == IF a > Len(s) THEN Len(s) ELSE a
        hi == IF b > Len(s) THEN Len(s) ELSE b
    IN  IF hi <= lo THEN << >> ELSE SubSeq(s, lo + 1, hi)

distribute_accounts_across_apis(accounts) ==
    [i \in Apis |->
        [api_url |-> API_URLS[i],
         api_name |-> i,
         accounts_group |->
            Slice(accounts, StartIdx(i, Len(accounts)),
                  StartIdx(i, Len(accounts)) + GroupSize(i, Len(accounts)))]]

----------------------------------------------------------------------------
(* RateLimitManager *)

RateLimitManager_init ==
    [first_error_occurred |-> FALSE, pause_in_progress |-> FALSE]

\* handle_rate_limit: the value returned and the manager afterwards.
handle_rate_limit_noset(m) ==
    IF ~m.first_error_occurred
    THEN [is_first |-> TRUE, m |-> [m EXCEPT !.pause_in_progress = TRUE]]
    ELSE [is_first |-> FALSE, m |-> m]

handle_rate_limit(m) ==
    IF ~m.first_error_occurred
    THEN [is_first |-> TRUE,
          m |-> [m EXCEPT !.first_error_occurred = TRUE,
                          !.pause_in_progress = TRUE]]
    ELSE [is_first |-> FALSE, m |-> m]

reset(m) ==
    [m EXCEPT !.first_error_occurred = FALSE, !.pause_in_progress = FALSE]

----------------------------------------------------------------------------
(* Where a record sits in the distribution *)

Total == Len(valid_accounts)

\* The endpoint whose shard holds record w.
ApiOf(w) ==
    CHOOSE i \in Apis :
        \E p \in 1..Len(api_distribution[i].accounts_group) :
            api_distribution[i].accounts_group[p] = w

Shard(i) == api_distribution[i].accounts_group

\* accounts[batch_idx:batch_idx + BATCH_SIZE] of endpoint i, as a set of records.
Batch(i, b) ==
    LET s == Slice(Shard(i), b, b + BATCH_SIZE)
    IN  {s[p] : p \in 1..Len(s)}

Suspended == {"req", "backoff", "pause_sleep", "buffer_sleep"}
Resolved == {"done_ok", "done_fail", "done_timeout"}

\* Fetches of endpoint i that hold the batch's semaphore.
InFlight(i) == {w \in Batch(i, batch_idx[i]) : pc[w] \in Suspended}

----------------------------------------------------------------------------
(* Initial state: run_token_fetch has found the account files and cleared stats *)

RECURSIVE SumTo(_, _)
SumTo(f, n) == IF n = 0 THEN 0 ELSE f[n] + SumTo(f, n - 1)

\* The account files a run may find: per file, how many valid records.
AccountFiles ==
    {f \in [1..NumRegions -> 0..MaxRecords] : SumTo(f, NumRegions) <= MaxRunRecords}

EmptyStats ==
    [total |-> 0, completed |-> 0, success |-> 0, failed |-> 0,
     timed_out |-> 0, api_usage |-> [i \in Apis |-> 0]]

Init ==
    /\ region_idx = 1
    /\ account_files \in AccountFiles
    /\ phase = "Idle"
    /\ valid_accounts = << >>
    /\ api_distribution = distribute_accounts_across_apis(<< >>)
    /\ stats = EmptyStats
    /\ rate_limit_manager = RateLimitManager_init
    /\ pause_event = FALSE
    /\ api_pc = [i \in Apis |-> "none"]
    /\ batch_idx = [i \in Apis |-> 0]
    /\ pc = [w \in Records |-> "none"]
    /\ attempt = [w \in Records |-> 0]
    /\ region_timed_out = FALSE
    /\ reported = FALSE
    /\ firsts = 0
    /\ pauses = 0
    /\ results = << >>
    /\ token_files = {}
    /\ pushed = << >>
    /\ push_ok = "none"
    /\ run_results = << >>
    /\ sent = [w \in Records |-> {}]
    /\ requests = [w \in Records |-> 0]
    /\ now = 0
    /\ gh = GhIdle
    /\ tracker = TrackerIdle
    /\ AuxIdle

----------------------------------------------------------------------------
(* process_region, up to the await of the gathered endpoint tasks *)

StartRegion_keep_manager ==
    /\ phase = "Idle"
    /\ region_idx <= NumRegions
    /\ account_files[region_idx] > 0
    /\ LET accs == [p \in 1..account_files[region_idx] |-> p]
       IN  /\ valid_accounts' = accs
           /\ api_distribution' = distribute_accounts_across_apis(accs)
           /\ stats' = [stats EXCEPT !.total = Len(accs), !.completed = 0,
                                     !.success = 0, !.failed = 0, !.timed_out = 0]
    /\ UNCHANGED <<rate_limit_manager, pause_event>>
    /\ api_pc' = [i \in Apis |-> "start"]
    /\ batch_idx' = [i \in Apis |-> 0]
    /\ pc' = [w \in Records |-> "none"]
    /\ attempt' = [w \in Records |-> 0]
    /\ region_timed_out' = FALSE
    /\ reported' = FALSE
    /\ firsts' = 0
    /\ pauses' = 0
    /\ phase' = "Fetching"
    /\ sent' = [w \in Records |-> {}]
    /\ requests' = [w \in Records |-> 0]
    /\ UNCHANGED <<region_idx, account_files, aggVars, now, gh, tracker, auxVars>>

StartRegion_overlap ==
    /\ phase \in {"Idle", "Persisting"}
    /\ region_idx <= NumRegions
    /\ account_files[region_idx] > 0
    /\ LET accs == [p \in 1..account_files[region_idx] |-> p]
       IN  /\ valid_accounts' = accs
           /\ api_distribution' = distribute_accounts_across_apis(accs)
           /\ stats' = [stats EXCEPT !.total = Len(accs), !.completed = 0,
                                     !.success = 0, !.failed = 0, !.timed_out = 0]
    /\ rate_limit_manager' = RateLimitManager_init
    /\ pause_event' = FALSE
    /\ api_pc' = [i \in Apis |-> "start"]
    /\ batch_idx' = [i \in Apis |-> 0]
    /\ pc' = [w \in Records |-> "none"]
    /\ attempt' = [w \in Records |-> 0]
    /\ region_timed_out' = FALSE
    /\ reported' = FALSE
    /\ firsts' = 0
    /\ pauses' = 0
    /\ phase' = "Fetching"
    /\ sent' = [w \in Records |-> {}]
    /\ requests' = [w \in Records |-> 0]
    /\ UNCHANGED <<region_idx, account_files, aggVars, now, gh, tracker, auxVars>>

StartRegion ==
    /\ phase = "Idle"
    /\ region_idx <= NumRegions
    /\ account_files[region_idx] > 0
    /\ LET accs == [p \in 1..account_files[region_idx] |-> p]
       IN  /\ valid_accounts' = accs
           /\ api_distribution' = distribute_accounts_across_apis(accs)
           /\ stats' = [stats EXCEPT !.total = Len(accs), !.completed = 0,
                                     !.success = 0, !.failed = 0, !.timed_out = 0]
    /\ rate_limit_manager' = RateLimitManager_init
    /\ pause_event' = FALSE
    /\ api_pc' = [i \in Apis |-> "start"]
    /\ batch_idx' = [i \in Apis |-> 0]
    /\ pc' = [w \in Records |-> "none"]
    /\ attempt' = [w \in Records |-> 0]
    /\ region_timed_out' = FALSE
    /\ reported' = FALSE
    /\ firsts' = 0
    /\ pauses' = 0
    /\ phase' = "Fetching"
    /\ sent' = [w \in Records |-> {}]
    /\ requests' = [w \in Records |-> 0]
    /\ UNCHANGED <<region_idx, account_files, aggVars, now, gh, tracker, auxVars>>

\* The file cannot be loaded, or total == 0: process_region returns None
\* before it touches stats.
SkipRegion ==
    /\ phase = "Idle"
    /\ region_idx <= NumRegions
    /\ account_files[region_idx] = 0
    /\ region_idx' = region_idx + 1
    /\ UNCHANGED <<account_files, phase, valid_accounts, api_distribution, stats,
                   rate_limit_manager, pause_event, api_pc, batch_idx, pc,
                   attempt, region_timed_out, reported, firsts, pauses,
                   aggVars, sent, requests, now, gh, tracker, auxVars>>

----------------------------------------------------------------------------
(* process_api_batch, one coroutine per endpoint *)

ApiStart_whole_shard(i) ==
    /\ phase = "Fetching"
    /\ api_pc[i] = "start"
    /\ IF Len(Shard(i)) = 0
       THEN /\ api_pc' = [api_pc EXCEPT ![i] = "done"]
            /\ pc' = pc
       ELSE /\ api_pc' = [api_pc EXCEPT ![i] = "gather"]
            /\ pc' = [w \in Records |->
                        IF \E p \in 1..Len(Shard(i)) : Shard(i)[p] = w
                        THEN "ready" ELSE pc[w]]
    /\ UNCHANGED <<region_idx, account_files, phase, valid_accounts,
                   api_distribution, stats, rate_limit_manager, pause_event,
                   batch_idx, attempt, region_timed_out, reported, firsts, pauses,
                   aggVars, sent, requests, now, gh, tracker, auxVars>>

\* First run of the coroutine: an empty shard returns at once, otherwise the
\* first batch's tasks are created and gathered.
ApiStart(i) ==
    /\ phase = "Fetching"
    /\ api_pc[i] = "start"
    /\ IF Len(Shard(i)) = 0
       THEN /\ api_pc' = [api_pc EXCEPT ![i] = "done"]
            /\ pc' = pc
       ELSE /\ api_pc' = [api_pc EXCEPT ![i] = "gather"]
            /\ pc' = [w \in Records |->
                        IF w \in Batch(i, 0) THEN "ready" ELSE pc[w]]
    /\ UNCHANGED <<region_idx, account_files, phase, valid_accounts,
                   api_distribution, stats, rate_limit_manager, pause_event,
                   batch_idx, attempt, region_timed_out, reported, firsts, pauses,
                   aggVars, sent, requests, now, gh, tracker, auxVars>>

ApiGatherDone_no_wait(i) ==
    /\ phase = "Fetching"
    /\ api_pc[i] = "gather"
    /\ api_pc' = [api_pc EXCEPT ![i] =
                    IF batch_idx[i] + BATCH_SIZE < Len(Shard(i))
                    THEN "delay" ELSE "done"]
    /\ UNCHANGED <<region_idx, account_files, phase, valid_accounts,
                   api_distribution, stats, rate_limit_manager, pause_event,
                   batch_idx, pc, attempt, region_timed_out, reported, firsts, pauses,
                   aggVars, sent, requests, now, gh, tracker, auxVars>>

ApiGatherDone_always_delay(i) ==
    /\ phase = "Fetching"
    /\ api_pc[i] = "gather"
    /\ \A w \in Batch(i, batch_idx[i]) : pc[w] \in Resolved
    /\ api_pc' = [api_pc EXCEPT ![i] =
                    IF batch_idx[i] + BATCH_SIZE <= Len(Shard(i))
                    THEN "delay" ELSE "done"]
    /\ UNCHANGED <<region_idx, account_files, phase, valid_accounts,
                   api_distribution, stats, rate_limit_manager, pause_event,
                   batch_idx, pc, attempt, region_timed_out, reported, firsts, pauses,
                   aggVars, sent, requests, now, gh, tracker, auxVars>>

\* asyncio.gather of the batch returns; BATCH_DELAY follows unless it was the
\* last batch.
ApiGatherDone(i) ==
    /\ phase = "Fetching"
    /\ api_pc[i] = "gather"
    /\ \A w \in Batch(i, batch_idx[i]) : pc[w] \in Resolved
    /\ api_pc' = [api_pc EXCEPT ![i] =
                    IF batch_idx[i] + BATCH_SIZE < Len(Shard(i))
                    THEN "delay" ELSE "done"]
    /\ UNCHANGED <<region_idx, account_files, phase, valid_accounts,
                   api_distribution, stats, rate_limit_manager, pause_event,
                   batch_idx, pc, attempt, region_timed_out, reported, firsts, pauses,
                   aggVars, sent, requests, now, gh, tracker, auxVars>>

\* asyncio.sleep(BATCH_DELAY) returns; the next batch's tasks are created.
ApiDelayDone(i) ==
    /\ phase = "Fetching"
    /\ api_pc[i] = "delay"
    /\ batch_idx' = [batch_idx EXCEPT ![i] = @ + BATCH_SIZE]
    /\ api_pc' = [api_pc EXCEPT ![i] = "gather"]
    /\ pc' = [w \in Records |->
                IF w \in Batch(i, batch_idx[i] + BATCH_SIZE) THEN "ready" ELSE pc[w]]
    /\ UNCHANGED <<region_idx, account_files, phase, valid_accounts,
                   api_distribution, stats, rate_limit_manager, pause_event,
                   attempt, region_timed_out, reported, firsts, pauses,
                   aggVars, sent, requests, now, gh, tracker, auxVars>>

----------------------------------------------------------------------------
(* bounded_fetch / fetch_token_with_timeout / fetch_token, one per record *)

\* range(MAX_RETRIES): the source's value where time is modelled, the scaled
\* one elsewhere.
RetryLimit == IF phase = "Timed" THEN CONFIGURED_MAX_RETRIES ELSE MAX_RETRIES

FetchUnchanged ==
    UNCHANGED <<region_idx, account_files, phase, valid_accounts,
                api_distribution, api_pc, batch_idx, region_timed_out,
                aggVars, now, gh, tracker, auxVars>>

\* The end of one iteration of the retry loop with no token: after the last
\* attempt the loop breaks and the failure is counted, otherwise the next
\* iteration starts with the backoff sleep.  st is the stats value so far.
LoopEnd_one_more(w, st) ==
    IF attempt[w] = RetryLimit
    THEN /\ pc' = [pc EXCEPT ![w] = "done_fail"]
         /\ attempt' = [attempt EXCEPT ![w] = 0]
         /\ requests' = [requests EXCEPT ![w] = 0]
         /\ stats' = [st EXCEPT !.failed = @ + 1, !.completed = @ + 1]
    ELSE /\ pc' = [pc EXCEPT ![w] = "backoff"]
         /\ attempt' = [attempt EXCEPT ![w] = @ + 1]
         /\ requests' = requests
         /\ stats' = st

LoopEnd_lost_update(w, st) ==
    IF attempt[w] = RetryLimit - 1
    THEN /\ pc' = [pc EXCEPT ![w] = "done_fail"]
         /\ attempt' = [attempt EXCEPT ![w] = 0]
         /\ requests' = [requests EXCEPT ![w] = 0]
         /\ stats' = [st EXCEPT !.failed = @ + 1]
    ELSE /\ pc' = [pc EXCEPT ![w] = "backoff"]
         /\ attempt' = [attempt EXCEPT ![w] = @ + 1]
         /\ requests' = requests
         /\ stats' = st

LoopEnd(w, st) ==
    IF attempt[w] = RetryLimit - 1
    THEN /\ pc' = [pc EXCEPT ![w] = "done_fail"]
         /\ attempt' = [attempt EXCEPT ![w] = 0]
         /\ requests' = [requests EXCEPT ![w] = 0]
         /\ stats' = [st EXCEPT !.failed = @ + 1, !.completed = @ + 1]
    ELSE /\ pc' = [pc EXCEPT ![w] = "backoff"]
         /\ attempt' = [attempt EXCEPT ![w] = @ + 1]
         /\ requests' = requests
         /\ stats' = st

\* session.get(url): the GET goes to the api_url that process_api_batch was
\* given for the shard of the record.
Get_fallback(w) ==
    /\ sent' = [sent EXCEPT ![w] =
                  @ \cup {API_URLS[((ApiOf(w) - 1 + attempt[w]) % Len(API_URLS)) + 1]}]
    /\ requests' = [requests EXCEPT ![w] = @ + 1]

Get(w) ==
    /\ sent' = [sent EXCEPT ![w] = @ \cup {api_distribution[ApiOf(w)].api_url}]
    /\ requests' = [requests EXCEPT ![w] = @ + 1]

\* The task's first run: the batch's semaphore is taken, wait_for starts the
\* per-item clock, and attempt 0 issues its GET without a backoff.
StartFetch(w) ==
    /\ phase = "Fetching"
    /\ pc[w] = "ready"
    /\ Cardinality(InFlight(ApiOf(w))) < MAX_CONCURRENT_PER_API
    /\ pc' = [pc EXCEPT ![w] = "req"]
    /\ Get(w)
    /\ UNCHANGED <<stats, rate_limit_manager, pause_event, attempt, reported, firsts, pauses>>
    /\ FetchUnchanged

\* The task's first run on a record whose password is not a string (the
\* filter of process_region asks for the key only): urllib.parse.quote raises
\* TypeError before the retry loop, outside its try.  Neither
\* wait_for, gather nor process_region catches it, and run_token_fetch has no
\* handler around process_region: the error leaves run_token_fetch.
FetchRaises(w) ==
    /\ phase = "Fetching"
    /\ pc[w] = "ready"
    /\ Cardinality(InFlight(ApiOf(w))) < MAX_CONCURRENT_PER_API
    /\ phase' = "Raised"
    /\ UNCHANGED <<region_idx, account_files, valid_accounts, api_distribution,
                   stats, rate_limit_manager, pause_event, api_pc, batch_idx,
                   pc, attempt, region_timed_out, reported, firsts, pauses,
                   aggVars, sent, requests, now, gh, tracker, auxVars>>

\* asyncio.sleep(delay) of attempt > 0 returns and the GET is issued.
BackoffDone(w) ==
    /\ phase = "Fetching"
    /\ pc[w] = "backoff"
    /\ pc' = [pc EXCEPT ![w] = "req"]
    /\ Get(w)
    /\ UNCHANGED <<stats, rate_limit_manager, pause_event, attempt, reported, firsts, pauses>>
    /\ FetchUnchanged

\* 200 with a token: counted and returned.
RecvToken(w) ==
    /\ stats' = [stats EXCEPT !.success = @ + 1, !.completed = @ + 1,
                              !.api_usage[ApiOf(w)] = @ + 1]
    /\ pc' = [pc EXCEPT ![w] = "done_ok"]
    /\ attempt' = [attempt EXCEPT ![w] = 0]
    /\ requests' = [requests EXCEPT ![w] = 0]
    /\ UNCHANGED <<rate_limit_manager, pause_event, reported, firsts, pauses>>

Recv429_all_pause(w) ==
    LET h == handle_rate_limit(rate_limit_manager)
    IN  /\ rate_limit_manager' = h.m
        /\ reported' = TRUE
        /\ firsts' = firsts + (IF h.is_first THEN 1 ELSE 0)
        /\ pauses' = pauses + 1
        /\ pause_event' = TRUE
        /\ pc' = [pc EXCEPT ![w] = "pause_sleep"]
        /\ UNCHANGED <<stats, attempt, requests>>

\* 429: handle_rate_limit; the first caller sets pause_event and sleeps 5 s;
\* a later caller that sees pause_event set calls pause_event.wait(), which
\* returns at once on a set event, and then sleeps 0.1 s.
Recv429(w) ==
    LET h == handle_rate_limit(rate_limit_manager)
    IN  /\ rate_limit_manager' = h.m
        /\ reported' = TRUE
        /\ IF h.is_first
           THEN /\ firsts' = firsts + 1
                /\ pauses' = pauses + 1
                /\ pause_event' = TRUE
                /\ pc' = [pc EXCEPT ![w] = "pause_sleep"]
                /\ UNCHANGED <<stats, attempt, requests>>
           ELSE /\ firsts' = firsts
                /\ pauses' = pauses
                /\ pause_event' = pause_event
                /\ IF pause_event
                   THEN /\ pc' = [pc EXCEPT ![w] = "buffer_sleep"]
                        /\ UNCHANGED <<stats, attempt, requests>>
                   ELSE LoopEnd(w, stats)

\* 200 without a token, 500, another status, or an exception: logged only.
RecvFailure(w) ==
    /\ LoopEnd(w, stats)
    /\ UNCHANGED <<rate_limit_manager, pause_event, reported, firsts, pauses>>

\* The GET of the current attempt resolves with response r.
RecvResponse(w, r) ==
    /\ phase = "Fetching"
    /\ pc[w] = "req"
    /\ CASE r = "token" -> RecvToken(w)
         [] r = "429" -> Recv429(w)
         [] OTHER -> RecvFailure(w)
    /\ sent' = sent
    /\ FetchUnchanged

\* asyncio.sleep(5) of the pausing worker returns: the signal is cleared.
PauseDone_reopen(w) ==
    /\ phase = "Fetching"
    /\ pc[w] = "pause_sleep"
    /\ pause_event' = FALSE
    /\ rate_limit_manager' = reset(rate_limit_manager)
    /\ LoopEnd(w, stats)
    /\ UNCHANGED <<reported, firsts, pauses, sent>>
    /\ FetchUnchanged

PauseDone(w) ==
    /\ phase = "Fetching"
    /\ pc[w] = "pause_sleep"
    /\ pause_event' = FALSE
    /\ rate_limit_manager' = [rate_limit_manager EXCEPT !.pause_in_progress = FALSE]
    /\ LoopEnd(w, stats)
    /\ UNCHANGED <<reported, firsts, pauses, sent>>
    /\ FetchUnchanged

\* asyncio.sleep(0.1) of a non-first worker returns.
BufferDone(w) ==
    /\ phase = "Fetching"
    /\ pc[w] = "buffer_sleep"
    /\ LoopEnd(w, stats)
    /\ UNCHANGED <<rate_limit_manager, pause_event, reported, firsts, pauses, sent>>
    /\ FetchUnchanged

\* The per-item timeout: wait_for cancels fetch_token where it is suspended
\* and the wrapper counts the record as failed and timed out.
ItemTimeout_cancels_all(w) ==
    /\ phase = "Fetching"
    /\ pc[w] \in Suspended
    /\ stats' = [stats EXCEPT !.failed = @ + 1, !.completed = @ + 1,
                              !.timed_out = @ + 1]
    /\ pc' = [v \in Records |->
                IF v = w THEN "done_timeout"
                ELSE IF pc[v] \in Suspended THEN "cancelled" ELSE pc[v]]
    /\ attempt' = [attempt EXCEPT ![w] = 0]
    /\ requests' = [requests EXCEPT ![w] = 0]
    /\ UNCHANGED <<rate_limit_manager, pause_event, reported, firsts, pauses, sent>>
    /\ FetchUnchanged

ItemTimeout_twice(w) ==
    /\ phase = "Fetching"
    /\ pc[w] \in Suspended \cup {"done_fail"}
    /\ stats' = [stats EXCEPT !.failed = @ + 1, !.completed = @ + 1,
                              !.timed_out = @ + 1]
    /\ pc' = [pc EXCEPT ![w] = "done_timeout"]
    /\ attempt' = [attempt EXCEPT ![w] = 0]
    /\ requests' = [requests EXCEPT ![w] = 0]
    /\ UNCHANGED <<rate_limit_manager, pause_event, reported, firsts, pauses, sent>>
    /\ FetchUnchanged

ItemTimeout(w) ==
    /\ phase = "Fetching"
    /\ pc[w] \in Suspended
    /\ stats' = [stats EXCEPT !.failed = @ + 1, !.completed = @ + 1,
                              !.timed_out = @ + 1]
    /\ pc' = [pc EXCEPT ![w] = "done_timeout"]
    /\ attempt' = [attempt EXCEPT ![w] = 0]
    /\ requests' = [requests EXCEPT ![w] = 0]
    /\ UNCHANGED <<rate_limit_manager, pause_event, reported, firsts, pauses, sent>>
    /\ FetchUnchanged

----------------------------------------------------------------------------
(* process_region, from the await of the gathered endpoint tasks on *)

\* What bounded_fetch returned for record w: its token (named by the record)
\* or None, written 0.
Outcome(w) == IF pc[w] = "done_ok" THEN w ELSE 0

\* all_results of process_api_batch for endpoint i, in shard order.
ApiResult(i) == [p \in 1..Len(Shard(i)) |-> Outcome(Shard(i)[p])]

\* results.extend(api_result) over the first i endpoints.
RECURSIVE Flatten(_, _)
Flatten(r, i) == IF i = 0 THEN << >> ELSE Flatten(r, i - 1) \o r[i]

\* valid_tokens = [r for r in results if r is not None]
valid_tokens == SelectSeq(results, LAMBDA r : r # 0)

\* round(len(valid_tokens) / total * 100, 1) in tenths of a percent (so 667
\* is 66.7): the nearest tenth, and the even one on a tie, as round() does.
success_rate(n, total) ==
    LET q == (n * 1000) \div total
        rem == (n * 1000) % total
    IN  IF 2 * rem > total THEN q + 1
        ELSE IF 2 * rem = total THEN q + (q % 2)
        ELSE q

RegionResult_push_dependent ==
    LET n == IF push_ok = "False" THEN 0 ELSE Len(valid_tokens)
    IN  [region |-> region_idx, total |-> Total, success |-> n,
         failed |-> Total - n, success_rate |-> success_rate(n, Total)]

\* The dict process_region returns (duration left out).
RegionResult ==
    [region |-> region_idx, total |-> Total, success |-> Len(valid_tokens),
     failed |-> Total - Len(valid_tokens),
     success_rate |-> success_rate(Len(valid_tokens), Total)]

\* asyncio.gather(*api_tasks) returns within the region timeout and the
\* endpoints' results are flattened.
FetchDone ==
    /\ phase = "Fetching"
    /\ \A i \in Apis : api_pc[i] = "done"
    /\ phase' = "Aggregating"
    /\ results' = Flatten([i \in Apis |-> ApiResult(i)], Len(API_URLS))
    /\ UNCHANGED <<region_idx, account_files, valid_accounts, api_distribution,
                   stats, rate_limit_manager, pause_event, api_pc, batch_idx,
                   pc, attempt, region_timed_out, reported, firsts, pauses,
                   token_files, pushed, push_ok, run_results,
                   sent, requests, now, gh, tracker, auxVars>>

\* The region timeout: wait_for cancels the gather, which cancels every
\* endpoint task and every fetch that has not resolved, and waits for them;
\* the except branch sets results = [None] * total.
RegionTimeout_keeps_workers ==
    /\ phase = "Fetching"
    /\ \E i \in Apis : api_pc[i] # "done"
    /\ region_timed_out' = TRUE
    /\ phase' = "Aggregating"
    /\ results' = [p \in 1..Total |-> 0]
    /\ UNCHANGED <<region_idx, account_files, valid_accounts, api_distribution,
                   stats, rate_limit_manager, pause_event, batch_idx,
                   api_pc, pc, attempt, requests,
                   reported, firsts, pauses,
                   token_files, pushed, push_ok, run_results, sent, now, gh, tracker, auxVars>>

RegionTimeout ==
    /\ phase = "Fetching"
    /\ \E i \in Apis : api_pc[i] # "done"
    /\ api_pc' = [i \in Apis |-> IF api_pc[i] = "done" THEN "done" ELSE "cancelled"]
    /\ pc' = [w \in Records |->
                IF pc[w] \in Suspended \cup {"ready"} THEN "cancelled" ELSE pc[w]]
    /\ region_timed_out' = TRUE
    /\ phase' = "Aggregating"
    /\ attempt' = [w \in Records |-> 0]
    /\ requests' = [w \in Records |-> 0]
    /\ results' = [p \in 1..Total |-> 0]
    /\ UNCHANGED <<region_idx, account_files, valid_accounts, api_distribution,
                   stats, rate_limit_manager, pause_event, batch_idx,
                   reported, firsts, pauses,
                   token_files, pushed, push_ok, run_results, sent, now, gh, tracker, auxVars>>

AggUnchanged ==
    UNCHANGED <<region_idx, account_files, valid_accounts, api_distribution,
                stats, rate_limit_manager, pause_event, api_pc, batch_idx,
                pc, attempt, region_timed_out, reported, firsts, pauses,
                results, run_results, sent, requests, now, gh, tracker, auxVars>>

\* valid_tokens is written to the local token file and push_to_github is
\* called with it.
SaveLocal ==
    /\ phase = "Aggregating"
    /\ token_files' = token_files \cup {region_idx}
    /\ pushed' = Append(pushed, valid_tokens)
    /\ phase' = "Persisting"
    /\ UNCHANGED push_ok
    /\ AggUnchanged

\* Opening the local token file raises (TOKENS_DIR not writable): the except
\* branch logs it, and neither the push nor the unlink runs.
SaveLocalError ==
    /\ phase = "Aggregating"
    /\ phase' = "Returning"
    /\ UNCHANGED <<token_files, pushed, push_ok>>
    /\ AggUnchanged

\* push_to_github returns: True after a PUT answered 200/201, False without a
\* GitHub token or after the last failed attempt.  The value is dropped.
PushDone(ok) ==
    /\ phase = "Persisting"
    /\ push_ok' = IF ok THEN "True" ELSE "False"
    /\ phase' = "Returning"
    /\ UNCHANGED <<token_files, pushed>>
    /\ AggUnchanged

\* token_save_path.unlink() when the push was reached and the file exists.
Unlink(files) ==
    IF push_ok # "none" THEN files \ {region_idx} ELSE files

\* `if on_region_complete:` and the call in its try/except: cb is "none"
\* when run_token_fetch was given no callback, else what the callback does
\* with the result, "returns" or "raises"; the call is recorded.
on_region_complete(cb) ==
    IF cb = "none" THEN callbacks
    ELSE Append(callbacks, [result |-> RegionResult, outcome |-> cb])

FinishRegion_callback_uncaught(cb) ==
    /\ phase = "Returning"
    /\ token_files' = Unlink(token_files)
    /\ run_results' = Append(run_results, RegionResult)
    /\ callbacks' = on_region_complete(cb)
    /\ region_idx' = region_idx + 1
    /\ phase' = IF cb = "raises" THEN "Raised" ELSE "Idle"
    /\ valid_accounts' = << >>
    /\ api_distribution' = distribute_accounts_across_apis(<< >>)
    /\ pause_event' = FALSE
    /\ api_pc' = [i \in Apis |-> "none"]
    /\ batch_idx' = [i \in Apis |-> 0]
    /\ pc' = [w \in Records |-> "none"]
    /\ region_timed_out' = FALSE
    /\ results' = << >>
    /\ pushed' = << >>
    /\ push_ok' = "none"
    /\ sent' = [w \in Records |-> {}]
    /\ UNCHANGED <<account_files, stats, rate_limit_manager, attempt,
                   reported, firsts, pauses, requests, now, gh, tracker,
                   loaded_accounts, host, logs, fb, backoff>>

\* The rest of process_region: the local file is removed and the Region
\* Result returned; run_token_fetch appends it, calls the callback if it
\* has one (an exception of the callback is caught and logged), and moves
\* to the next file.  The locals of process_region end with it; the stats
\* dict, and the manager it holds, stay.
FinishRegion(cb) ==
    /\ phase = "Returning"
    /\ token_files' = Unlink(token_files)
    /\ run_results' = Append(run_results, RegionResult)
    /\ callbacks' = on_region_complete(cb)
    /\ region_idx' = region_idx + 1
    /\ phase' = "Idle"
    /\ valid_accounts' = << >>
    /\ api_distribution' = distribute_accounts_across_apis(<< >>)
    /\ pause_event' = FALSE
    /\ api_pc' = [i \in Apis |-> "none"]
    /\ batch_idx' = [i \in Apis |-> 0]
    /\ pc' = [w \in Records |-> "none"]
    /\ region_timed_out' = FALSE
    /\ results' = << >>
    /\ pushed' = << >>
    /\ push_ok' = "none"
    /\ sent' = [w \in Records |-> {}]
    /\ UNCHANGED <<account_files, stats, rate_limit_manager, attempt,
                   reported, firsts, pauses, requests, now, gh, tracker,
                   loaded_accounts, host, logs, fb, backoff>>

\* An account file without valid records may hold JSON that cannot be
\* iterated (a number, null): the comprehension over accounts raises
\* TypeError outside any try, and the error leaves process_region and
\* run_token_fetch.
LoadRaises ==
    /\ phase = "Idle"
    /\ region_idx <= NumRegions
    /\ account_files[region_idx] = 0
    /\ phase' = "Raised"
    /\ UNCHANGED <<region_idx, account_files, valid_accounts, api_distribution,
                   stats, rate_limit_manager, pause_event, api_pc, batch_idx,
                   pc, attempt, region_timed_out, reported, firsts, pauses,
                   aggVars, sent, requests, now, gh, tracker, auxVars>>

\* run_token_fetch leaves its loop.
FinishRun ==
    /\ phase = "Idle"
    /\ region_idx > NumRegions
    /\ phase' = "Finished"
    /\ UNCHANGED <<region_idx, account_files, valid_accounts, api_distribution,
                   stats, rate_limit_manager, pause_event, api_pc, batch_idx,
                   pc, attempt, region_timed_out, reported, firsts, pauses,
                   aggVars, sent, requests, now, gh, tracker, auxVars>>

Next ==
    \/ StartRegion
    \/ SkipRegion
    \/ \E i \in Apis : ApiStart(i)
    \/ \E i \in Apis : ApiGatherDone(i)
    \/ \E i \in Apis : ApiDelayDone(i)
    \/ \E w \in Records : StartFetch(w)
    \/ \E w \in Records : FetchRaises(w)
    \/ \E w \in Records : BackoffDone(w)
    \/ \E w \in Records, r \in Responses : RecvResponse(w, r)
    \/ \E w \in Records : PauseDone(w)
    \/ \E w \in Records : BufferDone(w)
    \/ \E w \in Records : ItemTimeout(w)
    \/ FetchDone
    \/ RegionTimeout
    \/ SaveLocal
    \/ SaveLocalError
    \/ \E ok \in BOOLEAN : PushDone(ok)
    \/ FinishRegion("none")
    \/ LoadRaises
    \/ FinishRun

Spec == Init /\ [][Next]_vars

----------------------------------------------------------------------------
(* The distributor alone, on every record list up to MaxAccounts long *)

RecordLists ==
    UNION {[1..n -> 1..MaxAccounts] : n \in 0..MaxAccounts}

DistInit ==
    /\ region_idx = 1
    /\ account_files = [r \in 1..NumRegions |-> 0]
    /\ phase = "Distributing"
    /\ valid_accounts \in RecordLists
    /\ api_distribution = distribute_accounts_across_apis(<< >>)
    /\ stats = EmptyStats
    /\ rate_limit_manager = RateLimitManager_init
    /\ pause_event = FALSE
    /\ api_pc = [i \in Apis |-> "none"]
    /\ batch_idx = [i \in Apis |-> 0]
    /\ pc = [w \in Records |-> "none"]
    /\ attempt = [w \in Records |-> 0]
    /\ region_timed_out = FALSE
    /\ reported = FALSE
    /\ firsts = 0
    /\ pauses = 0
    /\ results = << >>
    /\ token_files = {}
    /\ pushed = << >>
    /\ push_ok = "none"
    /\ run_results = << >>
    /\ sent = [w \in Records |-> {}]
    /\ requests = [w \in Records |-> 0]
    /\ now = 0
    /\ gh = GhIdle
    /\ tracker = TrackerIdle
    /\ AuxIdle

Distribute ==
    /\ phase = "Distributing"
    /\ api_distribution' = distribute_accounts_across_apis(valid_accounts)
    /\ phase' = "Distributed"
    /\ UNCHANGED <<region_idx, account_files, valid_accounts, stats,
                   rate_limit_manager, pause_event, api_pc, batch_idx, pc,
                   attempt, region_timed_out, reported, firsts, pauses,
                   aggVars, sent, requests, now, gh, tracker, auxVars>>

DistNext == Distribute

DistSpec == DistInit /\ [][DistNext]_vars

----------------------------------------------------------------------------
(* fetch_token_with_timeout for one record with its clock: every GET is      *)
(* answered 429.  now counts the seconds since wait_for started; a sleep or *)
(* a GET that would end after ITEM_TIMEOUT is cut off by the timeout.        *)

TimedInit ==
    /\ region_idx = 1
    /\ account_files = [r \in 1..NumRegions |-> IF r = 1 THEN 1 ELSE 0]
    /\ phase = "Timed"
    /\ valid_accounts = <<1>>
    /\ api_distribution = distribute_accounts_across_apis(<<1>>)
    /\ stats = [EmptyStats EXCEPT !.total = 1]
    \* The record is the first of its region to see a 429, or another record
    \* has been and its pause is over.
    /\ rate_limit_manager \in
          {RateLimitManager_init,
           [first_error_occurred |-> TRUE, pause_in_progress |-> FALSE]}
    /\ pause_event = FALSE
    /\ api_pc = [i \in Apis |-> IF i = 1 THEN "gather" ELSE "done"]
    /\ batch_idx = [i \in Apis |-> 0]
    /\ pc = [w \in Records |-> IF w = 1 THEN "ready" ELSE "none"]
    /\ attempt = [w \in Records |-> 0]
    /\ region_timed_out = FALSE
    /\ reported = rate_limit_manager.first_error_occurred
    /\ firsts = IF rate_limit_manager.first_error_occurred THEN 1 ELSE 0
    /\ pauses = firsts
    /\ results = << >>
    /\ token_files = {}
    /\ pushed = << >>
    /\ push_ok = "none"
    /\ run_results = << >>
    /\ sent = [w \in Records |-> {}]
    /\ requests = [w \in Records |-> 0]
    /\ now = 0
    /\ gh = GhIdle
    /\ tracker = TrackerIdle
    /\ AuxIdle

TimedUnchanged ==
    UNCHANGED <<region_idx, account_files, phase, valid_accounts,
                api_distribution, api_pc, batch_idx, region_timed_out, aggVars,
                gh, tracker, auxVars>>

RECURSIVE Pow2(_)
Pow2(n) == IF n = 0 THEN 1 ELSE 2 * Pow2(n - 1)

Min(a, b) == IF a < b THEN a ELSE b

BaseDelay_no_cap(k) == INITIAL_DELAY * Pow2(k - 1)

\* base_delay of the sleep before attempt k >= 1.
BaseDelay(k) == Min(INITIAL_DELAY * Pow2(k - 1), MAX_DELAY)

TimedStartFetch ==
    /\ phase = "Timed"
    /\ pc[1] = "ready"
    /\ pc' = [pc EXCEPT ![1] = "req"]
    /\ Get(1)
    /\ UNCHANGED <<stats, rate_limit_manager, pause_event, attempt, reported,
                   firsts, pauses, now>>
    /\ TimedUnchanged

\* The GET is answered 429 after d seconds.
TimedRecv429(d) ==
    /\ phase = "Timed"
    /\ pc[1] = "req"
    /\ now + d <= ITEM_TIMEOUT
    /\ now' = now + d
    /\ Recv429(1)
    /\ sent' = sent
    /\ TimedUnchanged

\* asyncio.sleep(5) of the pause returns.
TimedPauseDone ==
    /\ phase = "Timed"
    /\ pc[1] = "pause_sleep"
    /\ now + PAUSE_SECONDS <= ITEM_TIMEOUT
    /\ now' = now + PAUSE_SECONDS
    /\ pause_event' = FALSE
    /\ rate_limit_manager' = [rate_limit_manager EXCEPT !.pause_in_progress = FALSE]
    /\ LoopEnd(1, stats)
    /\ UNCHANGED <<reported, firsts, pauses, sent>>
    /\ TimedUnchanged

\* asyncio.sleep(base_delay + jitter) returns and the next GET is issued.
TimedBackoffDone(j) ==
    /\ phase = "Timed"
    /\ pc[1] = "backoff"
    /\ now + BaseDelay(attempt[1]) + j <= ITEM_TIMEOUT
    /\ now' = now + BaseDelay(attempt[1]) + j
    /\ pc' = [pc EXCEPT ![1] = "req"]
    /\ Get(1)
    /\ UNCHANGED <<stats, rate_limit_manager, pause_event, attempt, reported,
                   firsts, pauses>>
    /\ TimedUnchanged

\* The longest the pending suspension of the record can last.
MaxWait ==
    CASE pc[1] = "req" -> REQUEST_TIMEOUT
      [] pc[1] = "pause_sleep" -> PAUSE_SECONDS
      [] pc[1] = "backoff" -> BaseDelay(attempt[1]) + JITTER
      [] OTHER -> 0

\* wait_for's timeout fires at ITEM_TIMEOUT while fetch_token is suspended.
TimedItemTimeout ==
    /\ phase = "Timed"
    /\ pc[1] \in Suspended
    /\ now + MaxWait >= ITEM_TIMEOUT
    /\ now' = ITEM_TIMEOUT
    /\ stats' = [stats EXCEPT !.failed = @ + 1, !.completed = @ + 1,
                              !.timed_out = @ + 1]
    /\ pc' = [pc EXCEPT ![1] = "done_timeout"]
    /\ attempt' = [attempt EXCEPT ![1] = 0]
    /\ requests' = [requests EXCEPT ![1] = 0]
    /\ UNCHANGED <<rate_limit_manager, pause_event, reported, firsts, pauses, sent>>
    /\ TimedUnchanged

TimedNext ==
    \/ TimedStartFetch
    \/ \E d \in 0..REQUEST_TIMEOUT : TimedRecv429(d)
    \/ TimedPauseDone
    \/ \E j \in 0..JITTER : TimedBackoffDone(j)
    \/ TimedItemTimeout

TimedSpec == TimedInit /\ [][TimedNext]_vars

----------------------------------------------------------------------------
(* Properties *)

Count(S) == Cardinality(S)
Active == 1..Total
PcIn(S) == {w \in Active : pc[w] \in S}

\* C1: between two resets (one manager, one region) exactly one
\* handle_rate_limit call returns True and every other call returns False:
\* once any call has returned, the number of True returns is 1.
C1_ExactlyOneFirst ==
    /\ firsts <= 1
    /\ reported => firsts = 1

\* Several workers have reported: one got True and sleeps the pause, two got
\* False while the signal was set.
C1_Witness ==
    /\ firsts = 1
    /\ Count(PcIn({"pause_sleep"})) = 1
    /\ Count(PcIn({"buffer_sleep"})) >= 2

\* C2: a worker whose report returned False while the pause signal is set does
\* not get past its wait, into the 0.1 s buffer sleep, before the signal has
\* been cleared.
C2_BlocksUntilCleared ==
    [][\A w \in Records :
          (pc[w] = "req" /\ pc'[w] = "buffer_sleep") => ~pause_event']_vars

\* C3: while the pause signal of the region is set no worker of the region
\* issues a new GET.
C3_NoRequestWhilePaused ==
    [][\A w \in Records :
          (pc[w] \in {"ready", "backoff"} /\ pc'[w] = "req") => ~pause_event]_vars

\* The pause of this region has run to its end: a call returned True and the
\* pausing worker has cleared pause_in_progress.
PauseFinished == firsts >= 1 /\ ~rate_limit_manager.pause_in_progress

\* C4 as stated: after the pause has finished the coordinator is Open again,
\* the next handle_rate_limit call of the region returns True.
C4_ReopensAfterPause ==
    PauseFinished => handle_rate_limit(rate_limit_manager).is_first

\* C4 amended: after the pause has finished the signal is cleared and
\* pause_in_progress is False, but first_error_occurred stays set: the next
\* handle_rate_limit call of the region returns False and no second pause
\* cycle starts.
C4_StaysClosedAfterPause ==
    PauseFinished =>
        /\ ~pause_event
        /\ rate_limit_manager.first_error_occurred
        /\ ~handle_rate_limit(rate_limit_manager).is_first
        /\ firsts = 1
        /\ pauses = 1

\* The pause has finished and another worker's GET is in flight.
C4_Witness ==
    /\ phase = "Fetching"
    /\ PauseFinished
    /\ \E w \in Active : pc[w] = "req" /\ attempt[w] >= 1

\* C5: every pause cycle ends.  Nothing touches the region's signal after its
\* fetch phase, so a cycle that ends has ended by then: once the fetch phase
\* is over the signal is cleared and pause_in_progress is False.
C5_PauseCycleEnds ==
    phase = "Aggregating" =>
        ~pause_event /\ ~rate_limit_manager.pause_in_progress

\* C6: within one region pause_event is set at most once, and exactly once as
\* soon as a 429 has been received.
C6_PauseAtMostOnce ==
    /\ pauses <= 1
    /\ reported => pauses = 1
    /\ pause_event => pauses = 1

\* The pause is over, a worker has failed all its attempts and others are
\* still retrying.
C6_Witness ==
    /\ pauses = 1
    /\ reported
    /\ ~pause_event
    /\ Count(PcIn({"done_fail"})) >= 1
    /\ Count(PcIn({"backoff"})) >= 2

\* C7: rate-limit state does not carry over between regions: until the first
\* report of a region the coordinator is Open and the signal is cleared, so
\* that report returns True; and reset() gives an Open coordinator whatever
\* the manager's state.
C7_FreshPerRegion ==
    /\ (phase = "Fetching" /\ ~reported) =>
            /\ rate_limit_manager = RateLimitManager_init
            /\ ~pause_event
            /\ handle_rate_limit(rate_limit_manager).is_first
    /\ (phase = "Fetching" /\ reported) => firsts = 1
    /\ reset(rate_limit_manager) = RateLimitManager_init

\* The second region's first report has returned True and its pause runs.
C7_Witness ==
    /\ region_idx = 2
    /\ account_files[1] > 0
    /\ phase = "Fetching"
    /\ firsts = 1
    /\ pause_event

\* The shards of the distribution, in endpoint order.
Groups == [i \in Apis |-> api_distribution[i].accounts_group]

RECURSIVE Concat(_, _)
Concat(g, i) == IF i = 0 THEN << >> ELSE Concat(g, i - 1) \o g[i]

RECURSIVE SumLen(_, _)
SumLen(g, i) == IF i = 0 THEN 0 ELSE SumLen(g, i - 1) + Len(g[i])

Elems(q) == {q[p] : p \in 1..Len(q)}
Distinct(q) == Count(Elems(q)) = Len(q)

\* C8: the distributor returns one shard per endpoint; the shard sizes sum to
\* n and differ by at most 1; the shards concatenated in endpoint order are
\* the record list; and shards of a list of distinct records share no record.
C8_Distribution ==
    phase = "Distributed" =>
        /\ DOMAIN api_distribution = 1..Len(API_URLS)
        /\ SumLen(Groups, Len(API_URLS)) = Len(valid_accounts)
        /\ \A i, j \in Apis : Len(Groups[i]) - Len(Groups[j]) <= 1
        /\ Concat(Groups, Len(API_URLS)) = valid_accounts
        /\ Distinct(valid_accounts) =>
              \A i, j \in Apis : i # j => Elems(Groups[i]) \cap Elems(Groups[j]) = {}

\* Five distinct records over three endpoints: shards of 2, 2 and 1.
C8_Witness ==
    /\ phase = "Distributed"
    /\ Len(valid_accounts) = 5
    /\ Distinct(valid_accounts)
    /\ valid_accounts[1] > valid_accounts[2]
    /\ Len(Groups[1]) = 2 /\ Len(Groups[2]) = 2 /\ Len(Groups[3]) = 1

\* C9: when the fetch phase ends without a region timeout every valid record
\* has been counted exactly once: completed equals total, and the counters
\* are the numbers of records that ended in fetch_token with a token, in
\* fetch_token without one, and in the per-item timeout.
C9_CountedOnce ==
    (phase = "Aggregating" /\ ~region_timed_out) =>
        /\ stats.completed = stats.total
        /\ stats.total = Total
        /\ \A w \in Active : pc[w] \in Resolved
        /\ stats.success = Count(PcIn({"done_ok"}))
        /\ stats.failed = Count(PcIn({"done_fail", "done_timeout"}))
        /\ stats.timed_out = Count(PcIn({"done_timeout"}))

\* A region has ended with a success, an exhausted record and a timed-out one.
C9_Witness ==
    /\ phase = "Aggregating"
    /\ ~region_timed_out
    /\ stats.success >= 1
    /\ stats.timed_out >= 1
    /\ stats.failed > stats.timed_out

\* C10: in every state of a region's fetch phase completed = success + failed,
\* timed_out <= failed and completed <= total, and completed is the number of
\* records resolved so far (no increment is lost).
C10_CountersConsistent ==
    /\ stats.completed = stats.success + stats.failed
    /\ stats.timed_out <= stats.failed
    /\ stats.completed <= stats.total
    /\ phase \in {"Fetching", "Aggregating"} =>
          stats.completed = Count(PcIn(Resolved))

\* Mid-phase: two records counted, one of them timed out, others in flight.
C10_Witness ==
    /\ phase = "Fetching"
    /\ stats.completed >= 2
    /\ stats.timed_out = 1
    /\ stats.success = 1
    /\ Count(PcIn(Suspended)) >= 2

\* process_region is past its fetch phase.
AfterFetch == phase \in {"Aggregating", "Persisting", "Returning"}

\* C11: when the region timeout fires, a record that had resolved with a
\* token before it keeps the token in results, and the Region Result's
\* success is the number of records that succeeded before the timeout.
C11_TimeoutKeepsTokens ==
    (AfterFetch /\ region_timed_out) =>
        /\ \A w \in Active : pc[w] = "done_ok" => results[w] = w
        /\ RegionResult.success = Count(PcIn({"done_ok"}))

\* The number of tokens handed to push_to_github by the region.
TokensHanded == SumLen(pushed, Len(pushed))

\* C12: every Region Result that process_region returns has total = number
\* of valid records and success + failed = total, and its success is the
\* number of tokens that were handed to push_to_github.
C12_ResultMatchesSink ==
    [][(phase = "Returning" /\ phase' = "Idle") =>
          LET rr == run_results'[Len(run_results')]
          IN  /\ rr.total = Len(valid_accounts)
              /\ rr.success + rr.failed = rr.total
              /\ rr.success = TokensHanded]_vars

\* C13: process_region removes the local token file only if push_to_github
\* returned True; after a push that returned False the file is still there
\* when process_region returns.
C13_DeletedOnlyAfterPush ==
    [][(phase = "Returning" /\ phase' = "Idle") =>
          /\ (region_idx \in token_files /\ region_idx \notin token_files')
                => push_ok = "True"
          /\ push_ok = "False" => region_idx \in token_files']_vars

\* C14: no error raised while a region is processed leaves run_token_fetch.
C14_ErrorContained == phase # "Raised"

C17_FailsAfterAllAttempts ==
    [][(pc[1] \notin Resolved /\ pc'[1] \in Resolved) =>
          /\ pc'[1] = "done_fail"
          /\ requests[1] = CONFIGURED_MAX_RETRIES
          /\ stats'.failed = stats.failed + 1]_vars

\* With the fastest answers and no jitter the sixth GET goes out at 155 s or
\* later and the sleep before a seventh would end after ITEM_TIMEOUT.
TimedAtMostSixRequests ==
    /\ requests[1] <= 6
    /\ pc[1] # "done_fail"

\* C18: a running fetch_token has issued at most MAX_RETRIES GETs; the step
\* that receives a token adds 1 to success and completed and yields the
\* token; and a record that has its token is never requested again.
C18_BoundedAttempts ==
    /\ [](\A w \in Records : requests[w] <= MAX_RETRIES)
    /\ [][\A w \in Records :
            /\ (pc[w] = "req" /\ pc'[w] = "done_ok") =>
                  /\ stats'.success = stats.success + 1
                  /\ stats'.completed = stats.completed + 1
                  /\ Outcome(w)' = w
            /\ pc[w] = "done_ok" =>
                  /\ pc'[w] \in {"done_ok", "none"}
                  /\ sent'[w] \subseteq sent[w]
                  /\ requests'[w] = 0]_vars

\* A record has its token while another one is on its last allowed GET.
C18_Witness ==
    /\ phase = "Fetching"
    /\ \E w \in Active : pc[w] = "done_ok"
    /\ \E w \in Active : pc[w] = "req" /\ requests[w] = MAX_RETRIES

\* The endpoint that the distribution assigns to the record at position p of
\* a list of n records.
AssignedApi(p, n) ==
    CHOOSE i \in Apis : StartIdx(i, n) < p /\ p <= StartIdx(i, n) + GroupSize(i, n)

\* C19: every GET made for a record went to the endpoint the record was
\* assigned at distribution time.
C19_StickyEndpoint ==
    \A w \in Active :
        sent[w] \subseteq {API_URLS[AssignedApi(w, Total)]}

\* A record of the second endpoint is on its last attempt, after a 429 in the
\* region, and all its GETs went to the second endpoint.
C19_Witness ==
    /\ phase = "Fetching"
    /\ reported
    /\ \E w \in Active :
          /\ pc[w] = "req"
          /\ requests[w] = MAX_RETRIES
          /\ sent[w] = {API_URLS[2]}

\* C20: in every state of a region, the api_usage counts sum to stats.success
\* and no endpoint's count exceeds the size of its shard.
C20_ApiUsagePerRegion ==
    (phase = "Fetching" \/ AfterFetch) =>
        /\ SumTo(stats.api_usage, Len(API_URLS)) = stats.success
        /\ \A i \in Apis : stats.api_usage[i] <= Len(Shard(i))

----------------------------------------------------------------------------
(* push_to_github and get_github_file_sha against the content store.       *)
(*                                                                         *)
(* gh holds the call (pc, attempt, sha: the locals of push_to_github), the *)
(* store (marker: the file's current version marker, 0 while the file does *)
(* not exist; content: what the file holds) and history                 *)
(* (gets, puts: requests issued by the running call; oks: PUTs of the call *)
(* answered 200 or 201; put_sha: the sha in the last PUT's payload, 0 for  *)
(* none; read_at: the attempt whose read produced sha; marker_at_read: the *)
(* store's marker when that read was answered; last_status: the answer to  *)
(* the call's previous PUT; ret, ret1: what this call and the call before  *)
(* it returned; others: writes by other clients).                          *)
(* A store that is not reliable may fail a read, answer a PUT with an      *)
(* error, lose the answer to a write it applied, and has other writers.    *)

GITHUB_MAX_RETRIES == 3   \* attempts of push_to_github
MaxOtherWrites == 2       \* writes of other clients during a run of PushSpec

Content == "tokens"        \* the token list handed to both push_to_github calls
OtherContent == "other"   \* anything else the file may hold

PushInit ==
    /\ region_idx = 1
    /\ account_files = [r \in 1..NumRegions |-> 0]
    /\ phase = "Pushing"
    /\ valid_accounts = << >>
    /\ api_distribution = distribute_accounts_across_apis(<< >>)
    /\ stats = EmptyStats
    /\ rate_limit_manager = RateLimitManager_init
    /\ pause_event = FALSE
    /\ api_pc = [i \in Apis |-> "none"]
    /\ batch_idx = [i \in Apis |-> 0]
    /\ pc = [w \in Records |-> "none"]
    /\ attempt = [w \in Records |-> 0]
    /\ region_timed_out = FALSE
    /\ reported = FALSE
    /\ firsts = 0
    /\ pauses = 0
    /\ results = << >>
    /\ token_files = {}
    /\ pushed = << >>
    /\ push_ok = "none"
    /\ run_results = << >>
    /\ sent = [w \in Records |-> {}]
    /\ requests = [w \in Records |-> 0]
    /\ now = 0
    /\ \E token \in BOOLEAN, reliable \in BOOLEAN, exists \in BOOLEAN :
          gh = [GhIdle EXCEPT !.token = token, !.reliable = reliable,
                              !.marker = IF exists THEN 1 ELSE 0,
                              !.content = IF exists THEN OtherContent ELSE "nothing"]
    /\ tracker = TrackerIdle
    /\ AuxIdle

PushUnchanged ==
    UNCHANGED <<region_idx, account_files, phase, valid_accounts,
                api_distribution, stats, rate_limit_manager, pause_event,
                api_pc, batch_idx, pc, attempt, region_timed_out, reported,
                firsts, pauses, aggVars, sent, requests, now, tracker,
                auxVars>>

\* push_to_github is called and runs to its first suspension: it returns
\* False at once without a token, else attempt 0 issues the GET of
\* get_github_file_sha (no sleep before attempt 0).
PushStart ==
    /\ phase = "Pushing"
    /\ gh.pc = "idle"
    /\ gh' = IF ~gh.token
             THEN [gh EXCEPT !.pc = "returned", !.ret = "False"]
             ELSE [gh EXCEPT !.pc = "get", !.attempt = 0, !.gets = @ + 1]
    /\ PushUnchanged

\* What get_github_file_sha returns for an answer r: the sha of a 200 body,
\* None (0) for any other status or an exception.
get_github_file_sha(r) ==
    IF r = "200" THEN gh.marker ELSE 0

PayloadSha_never(sha) ==
    0

\* `if sha: payload["sha"] = sha`: the sha the PUT carries, 0 for none.
PayloadSha(sha) ==
    sha

\* The read of the attempt is answered and the PUT is issued.  The store
\* answers 200 for a file that exists and 404 for one that does not; a
\* store that is not reliable may also fail the read ("error").
ShaRead(r) ==
    /\ phase = "Pushing"
    /\ gh.pc = "get"
    /\ \/ r = "200" /\ gh.marker # 0
       \/ r = "404" /\ gh.marker = 0
       \/ r = "error" /\ ~gh.reliable
    /\ gh' = [gh EXCEPT !.sha = get_github_file_sha(r),
                        !.read_at = gh.attempt,
                        !.marker_at_read = gh.marker,
                        !.put_sha = PayloadSha(get_github_file_sha(r)),
                        !.puts = @ + 1,
                        !.pc = "put"]
    /\ PushUnchanged

PushLoopEnd_one_more(g) ==
    IF g.attempt < GITHUB_MAX_RETRIES
    THEN [g EXCEPT !.attempt = @ + 1, !.pc = "sleep"]
    ELSE [g EXCEPT !.pc = "returned", !.ret = "False"]

\* An attempt failed (`except Exception: pass`, or a status that is not 200
\* or 201): the loop goes to the next attempt, which sleeps first, or ends
\* and push_to_github returns False.
PushLoopEnd(g) ==
    IF g.attempt + 1 < GITHUB_MAX_RETRIES
    THEN [g EXCEPT !.attempt = @ + 1, !.pc = "sleep"]
    ELSE [g EXCEPT !.pc = "returned", !.ret = "False"]

\* The store accepts a PUT that carries its current marker (none for a
\* missing file).
Accepts == gh.put_sha = gh.marker

\* The store applies the write and issues a new marker.
Written(g) ==
    [g EXCEPT !.marker = @ + 1, !.content = Content]

\* The PUT of the attempt is answered: 200 (updated) or 201 (created) when
\* the store accepts it, 409 when it does not; a store that is not reliable
\* may also answer with an error before writing ("500") or write and lose
\* the answer ("lost": the request raises).
PutDone(r) ==
    /\ phase = "Pushing"
    /\ gh.pc = "put"
    /\ \/ /\ r = "200" /\ Accepts /\ gh.marker # 0
          /\ gh' = [Written(gh) EXCEPT !.oks = @ + 1, !.last_status = r,
                                       !.pc = "returned", !.ret = "True"]
       \/ /\ r = "201" /\ Accepts /\ gh.marker = 0
          /\ gh' = [Written(gh) EXCEPT !.oks = @ + 1, !.last_status = r,
                                       !.pc = "returned", !.ret = "True"]
       \/ /\ r = "409" /\ ~Accepts
          /\ gh' = PushLoopEnd([gh EXCEPT !.last_status = r])
       \/ /\ r = "500" /\ ~gh.reliable
          /\ gh' = PushLoopEnd([gh EXCEPT !.last_status = r])
       \/ /\ r = "lost" /\ ~gh.reliable /\ Accepts
          /\ gh' = PushLoopEnd([Written(gh) EXCEPT !.last_status = r])
    /\ PushUnchanged

PushBackoffDone_skip_read ==
    /\ phase = "Pushing"
    /\ gh.pc = "sleep"
    /\ gh' = [gh EXCEPT !.put_sha = PayloadSha(gh.sha), !.puts = @ + 1,
                        !.pc = "put"]
    /\ PushUnchanged

\* The sleep before an attempt after the first is over: the attempt issues
\* the GET of get_github_file_sha.
PushBackoffDone ==
    /\ phase = "Pushing"
    /\ gh.pc = "sleep"
    /\ gh' = [gh EXCEPT !.pc = "get", !.gets = @ + 1]
    /\ PushUnchanged

\* push_to_github is called a second time with the same content.
PushAgain ==
    /\ phase = "Pushing"
    /\ gh.pc = "returned"
    /\ gh.call = 1
    /\ gh' = [gh EXCEPT !.call = 2, !.pc = "idle", !.ret1 = gh.ret,
                        !.ret = "none", !.attempt = 0, !.sha = 0,
                        !.read_at = -1, !.put_sha = 0, !.puts = 0,
                        !.gets = 0, !.oks = 0, !.last_status = "none",
                        !.marker_at_read = 0]
    /\ PushUnchanged

\* Another client writes the file while a call is waiting.
OtherWrite ==
    /\ phase = "Pushing"
    /\ ~gh.reliable
    /\ gh.pc \in {"get", "put", "sleep"}
    /\ gh.others < MaxOtherWrites
    /\ gh' = [gh EXCEPT !.marker = @ + 1, !.content = OtherContent,
                        !.others = @ + 1]
    /\ PushUnchanged

PushNext ==
    \/ PushStart
    \/ \E r \in {"200", "404", "error"} : ShaRead(r)
    \/ \E r \in {"200", "201", "409", "500", "lost"} : PutDone(r)
    \/ PushBackoffDone
    \/ PushAgain
    \/ OtherWrite

PushSpec == PushInit /\ [][PushNext]_vars

\* C21: a push_to_github call issues at most GITHUB_MAX_RETRIES PUTs; it
\* has returned True exactly when one of its PUTs was answered 200 or 201,
\* and then it has returned and issues nothing more; when it has returned
\* False, either no token is configured and it issued no request at all, or
\* it issued GITHUB_MAX_RETRIES PUTs and none was answered 200 or 201.
C21_PushAttempts ==
    /\ gh.puts <= GITHUB_MAX_RETRIES
    /\ gh.oks <= 1
    /\ (gh.oks = 1) <=> (gh.ret = "True")
    /\ gh.ret = "True" => gh.pc = "returned"
    /\ gh.ret = "False" =>
          /\ gh.pc = "returned"
          /\ gh.oks = 0
          /\ IF gh.token
             THEN gh.puts = GITHUB_MAX_RETRIES /\ gh.gets = GITHUB_MAX_RETRIES
             ELSE gh.puts = 0 /\ gh.gets = 0

\* A first call failed all its attempts, and the second call has returned
\* True on its last attempt.
C21_Witness ==
    /\ gh.token
    /\ gh.call = 2
    /\ gh.ret1 = "False"
    /\ gh.ret = "True"
    /\ gh.puts = GITHUB_MAX_RETRIES

\* C22: while a PUT is out, the sha of its payload is the one read in the
\* same attempt: the PUT carries a sha exactly when that read returned one,
\* and the sha is the marker the store had when the read was answered.
C22_ShaReadEachAttempt ==
    gh.pc = "put" =>
        /\ gh.read_at = gh.attempt
        /\ gh.put_sha = gh.sha
        /\ gh.put_sha \in {0, gh.marker_at_read}
        /\ gh.gets = gh.attempt + 1

\* After a conflict, the next attempt's PUT carries the marker the store has
\* now, which is not the one the refused PUT carried.
C22_Witness ==
    /\ gh.pc = "put"
    /\ gh.attempt >= 1
    /\ gh.last_status = "409"
    /\ gh.put_sha # 0
    /\ gh.put_sha = gh.marker
    /\ gh.others >= 1

\* C23: with a token and a store that works as described (it answers every
\* read, accepts a PUT exactly when the PUT carries its current marker, and
\* has no other writer), once two consecutive calls with the same content
\* have returned, both returned True and the store holds that content.
C23_UpsertTwice ==
    (gh.token /\ gh.reliable /\ gh.call = 2 /\ gh.pc = "returned") =>
        /\ gh.ret1 = "True"
        /\ gh.ret = "True"
        /\ gh.content = Content

\* Both calls have returned against such a store that held a file before
\* the first call: each call made one PUT, two markers were issued.
C23_Witness ==
    /\ gh.token
    /\ gh.reliable
    /\ gh.call = 2
    /\ gh.pc = "returned"
    /\ gh.ret = "True"
    /\ gh.marker = 3

----------------------------------------------------------------------------
(* Properties of process_region and run_token_fetch around the sink *)

\* C24: the answer of push_to_github, True or False, leaves the Region
\* Result as it was computed before the push; process_region then returns
\* that result, no error leaves it, and run_token_fetch appends the result
\* and goes on to the next account file.
C24_SinkLeavesResult ==
    [][/\ phase = "Persisting" =>
             /\ phase' = "Returning"
             /\ RegionResult' = RegionResult
       /\ phase = "Returning" =>
             /\ phase' = "Idle"
             /\ run_results' = Append(run_results, RegionResult)
             /\ RegionResult.success = Len(SelectSeq(results, LAMBDA r : r # 0))
             /\ region_idx' = region_idx + 1]_vars

\* push_to_github has returned False for a region in which some records got
\* a token and some did not.
C24_Witness ==
    /\ phase = "Returning"
    /\ push_ok = "False"
    /\ Len(valid_tokens) >= 1
    /\ Len(valid_tokens) < Total

----------------------------------------------------------------------------
(* Properties of the batch schedule *)

\* The batch of its shard that position p belongs to.
BatchOf(p) == (p - 1) \div BATCH_SIZE

\* C25: within a shard, a record of a later batch has a task, or has had a
\* request issued, only when every record of every earlier batch of the
\* shard has resolved (token, failure or per-item timeout).
C25_BatchesInSequence ==
    \A i \in Apis : \A p, q \in 1..Len(Shard(i)) :
        (/\ BatchOf(p) < BatchOf(q)
         /\ (pc[Shard(i)[q]] # "none" \/ sent[Shard(i)[q]] # {}))
        => pc[Shard(i)[p]] \in Resolved

\* No order between shards: one endpoint has a request of its second batch
\* out while another endpoint still has a request of its first batch out.
C25_Witness ==
    /\ phase = "Fetching"
    /\ \E i, j \in Apis :
          /\ i # j
          /\ batch_idx[i] >= BATCH_SIZE
          /\ \E w \in Batch(i, batch_idx[i]) : pc[w] = "req"
          /\ batch_idx[j] = 0
          /\ \E w \in Batch(j, 0) : pc[w] = "req"

\* The records of endpoint i's shard whose fetch is past its semaphore and
\* suspended in a request or a sleep.
InFlightOf(i) ==
    {w \in Records : /\ \E p \in 1..Len(Shard(i)) : Shard(i)[p] = w
                     /\ pc[w] \in Suspended}

\* C26: no endpoint has more than MAX_CONCURRENT_PER_API fetches in flight,
\* and all endpoints together have at most that many times the number of
\* endpoints.
C26_ConcurrencyCap ==
    /\ \A i \in Apis : Cardinality(InFlightOf(i)) <= MAX_CONCURRENT_PER_API
    /\ Cardinality({w \in Records : pc[w] \in Suspended})
          <= Len(API_URLS) * MAX_CONCURRENT_PER_API

\* Every endpoint is at its cap at once, with requests out.
C26_Witness ==
    /\ phase = "Fetching"
    /\ \A i \in Apis :
          /\ Cardinality(InFlightOf(i)) = MAX_CONCURRENT_PER_API
          /\ \A w \in InFlightOf(i) : pc[w] = "req"
    /\ Cardinality({w \in Records : pc[w] \in Suspended})
          = Len(API_URLS) * MAX_CONCURRENT_PER_API

----------------------------------------------------------------------------
(* Properties of the run loop *)

\* C27: outside the fetch phase of a region no fetch is alive; a fetch phase
\* starts only from between regions, when nothing of an earlier region is
\* left (no fetch, no endpoint coroutine, no results, no push), and the
\* stats change only in steps of the one region that is fetching.
C27_RegionsInSequence ==
    /\ [](phase \in {"Idle", "Aggregating", "Persisting", "Returning", "Finished"}
            => \A w \in Records : pc[w] \notin Suspended \cup {"ready"})
    /\ [][(phase' = "Fetching" /\ phase # "Fetching") =>
             /\ phase = "Idle"
             /\ \A w \in Records : pc[w] = "none"
             /\ \A i \in Apis : api_pc[i] = "none"
             /\ results = << >>
             /\ pushed = << >>
             /\ push_ok = "none"]_vars
    /\ [][stats' # stats => (phase' = "Fetching" /\ region_idx' = region_idx)]_vars

\* The second region is fetching with a request out, after the first region
\* has fetched, persisted and returned its result.
C27_Witness ==
    /\ region_idx = 2
    /\ phase = "Fetching"
    /\ Len(run_results) = 1
    /\ run_results[1].success >= 1
    /\ \E w \in Active : pc[w] = "req"

----------------------------------------------------------------------------
(* Runs in which every request is answered with a token at once: no other  *)
(* response, no timeout, no error.  The sink may still answer either way.  *)

HappyNext ==
    \/ StartRegion
    \/ SkipRegion
    \/ \E i \in Apis : ApiStart(i)
    \/ \E i \in Apis : ApiGatherDone(i)
    \/ \E i \in Apis : ApiDelayDone(i)
    \/ \E w \in Records : StartFetch(w)
    \/ \E w \in Records : RecvResponse(w, "token")
    \/ FetchDone
    \/ SaveLocal
    \/ \E ok \in BOOLEAN : PushDone(ok)
    \/ FinishRegion("none")
    \/ FinishRun

HappySpec == Init /\ [][HappyNext]_vars

\* In such a run, once the fetch phase of a region is over, every record has
\* its token from one GET to its endpoint, and the Region Result has
\* success = total, failed = 0 and a success rate of 100.0.
HappyAllSucceed ==
    /\ \A w \in Records : requests[w] <= 1 /\ attempt[w] = 0
    /\ AfterFetch =>
          /\ RegionResult.success = Total
          /\ RegionResult.failed = 0
          /\ RegionResult.success_rate = 1000
          /\ stats.success = Total
          /\ \A w \in Active :
                pc[w] = "done_ok" /\ sent[w] = {api_distribution[ApiOf(w)].api_url}

\* In the first region of such a run that has records, each endpoint's
\* api_usage is the size of its shard.
HappyFirstRegionUsage ==
    (AfterFetch /\ run_results = << >>) =>
        \A i \in Apis : stats.api_usage[i] = Len(Shard(i))

\* C28: when every request of a region succeeded on its first attempt, the
\* Region Result has success = total and failed = 0, each record was
\* requested once, and each endpoint's api_usage equals the size of its
\* shard.
C28_AllFirstTry ==
    AfterFetch =>
        /\ RegionResult.success = Total
        /\ RegionResult.failed = 0
        /\ \A w \in Active : Cardinality(sent[w]) = 1 /\ requests[w] = 0
        /\ \A i \in Apis : stats.api_usage[i] = Len(Shard(i))

----------------------------------------------------------------------------
(* Termination of process_region *)

\* The steps of Next in which no error leaves process_region.
NoRaiseNext ==
    \/ StartRegion
    \/ SkipRegion
    \/ \E i \in Apis : ApiStart(i)
    \/ \E i \in Apis : ApiGatherDone(i)
    \/ \E i \in Apis : ApiDelayDone(i)
    \/ \E w \in Records : StartFetch(w)
    \/ \E w \in Records : BackoffDone(w)
    \/ \E w \in Records, r \in Responses : RecvResponse(w, r)
    \/ \E w \in Records : PauseDone(w)
    \/ \E w \in Records : BufferDone(w)
    \/ \E w \in Records : ItemTimeout(w)
    \/ FetchDone
    \/ RegionTimeout
    \/ SaveLocal
    \/ SaveLocalError
    \/ \E ok \in BOOLEAN : PushDone(ok)
    \/ FinishRegion("none")
    \/ FinishRun

\* Every timer fires and every request is answered or times out: a step that
\* stays possible is taken.
NoRaiseFairSpec == Init /\ [][NoRaiseNext]_vars /\ WF_vars(NoRaiseNext)

\* As long as nothing raises, a region that has started fetching returns its
\* Region Result.
NoRaiseRegionReturns ==
    \A n \in 1..NumRegions :
        (phase = "Fetching" /\ Len(run_results) = n - 1)
            ~> (Len(run_results) = n)

\* C29: a region with a valid record that has started fetching goes on to
\* Done and returns a Region Result: no step takes it anywhere else.
C29_RegionReachesDone ==
    [][(phase \in {"Fetching", "Aggregating", "Persisting", "Returning"})
          => (phase' \in {"Fetching", "Aggregating", "Persisting", "Returning",
                          "Idle"})]_vars

----------------------------------------------------------------------------
(* track_progress of process_region, next to the fetches of one region.    *)
(*                                                                         *)
(* tracker holds the task (pc: "created" before its first run, "sleep" in  *)
(* asyncio.sleep(1), "done" after its loop ended, "cancelled"), the        *)
(* nonlocal last_logged_progress, and history: last_sample is the          *)
(* completed count the task read at its previous sample (-1 before the     *)
(* first), events the completed counts of the PROGRESS lines the task      *)
(* logged, final whether process_region logged its closing PROGRESS line.  *)
(* The fetches are reduced to what the task can see: stats.completed       *)
(* growing by one per resolved record, any number of times between two     *)
(* samples.                                                                *)

MaxTotal == 12        \* valid records of the region in TrackSpec
PROGRESS_STEP == 10   \* `completed % 10 == 0`

TrackInit ==
    /\ region_idx = 1
    /\ account_files = [r \in 1..NumRegions |-> 0]
    /\ phase = "Tracking"
    /\ valid_accounts = << >>
    /\ api_distribution = distribute_accounts_across_apis(<< >>)
    /\ \E total \in 1..MaxTotal : stats = [EmptyStats EXCEPT !.total = total]
    /\ rate_limit_manager = RateLimitManager_init
    /\ pause_event = FALSE
    /\ api_pc = [i \in Apis |-> "none"]
    /\ batch_idx = [i \in Apis |-> 0]
    /\ pc = [w \in Records |-> "none"]
    /\ attempt = [w \in Records |-> 0]
    /\ region_timed_out = FALSE
    /\ reported = FALSE
    /\ firsts = 0
    /\ pauses = 0
    /\ results = << >>
    /\ token_files = {}
    /\ pushed = << >>
    /\ push_ok = "none"
    /\ run_results = << >>
    /\ sent = [w \in Records |-> {}]
    /\ requests = [w \in Records |-> 0]
    /\ now = 0
    /\ gh = GhIdle
    /\ tracker = [TrackerIdle EXCEPT !.pc = "created"]
    /\ AuxIdle

TrackUnchanged ==
    UNCHANGED <<region_idx, account_files, valid_accounts, api_distribution,
                rate_limit_manager, pause_event, api_pc, batch_idx, pc,
                attempt, region_timed_out, reported, firsts, pauses, aggVars,
                sent, requests, now, gh, auxVars>>

\* A fetch of the region resolves: stats['completed'] += 1.  The task was
\* created before the fetches and has its first run before any of them.
Complete ==
    /\ phase = "Tracking"
    /\ tracker.pc # "created"
    /\ stats.completed < stats.total
    /\ stats' = [stats EXCEPT !.completed = @ + 1]
    /\ UNCHANGED <<phase, tracker>>
    /\ TrackUnchanged

TrackSample_writes_back ==
    /\ phase = "Tracking"
    /\ tracker.pc \in {"created", "sleep"}
    /\ tracker' = IF stats.completed < stats.total
                  THEN [tracker EXCEPT !.last_sample = stats.completed,
                                       !.pc = "sleep"]
                  ELSE [tracker EXCEPT !.pc = "done"]
    /\ stats' = IF tracker.last_sample >= 0
                THEN [stats EXCEPT !.completed = tracker.last_sample]
                ELSE stats
    /\ UNCHANGED phase
    /\ TrackUnchanged

\* The task runs (first run, or asyncio.sleep(1) returned): one pass of
\* `while stats.get('completed', 0) < total`, up to the next sleep, or the
\* end of the loop.
TrackSample ==
    /\ phase = "Tracking"
    /\ tracker.pc \in {"created", "sleep"}
    /\ LET completed == stats.completed
       IN  tracker' =
              IF completed < stats.total
              THEN IF completed % PROGRESS_STEP = 0
                      /\ completed # tracker.last_logged_progress
                   THEN [tracker EXCEPT !.events = Append(@, completed),
                                        !.last_logged_progress = completed,
                                        !.last_sample = completed,
                                        !.pc = "sleep"]
                   ELSE [tracker EXCEPT !.last_sample = completed,
                                        !.pc = "sleep"]
              ELSE [tracker EXCEPT !.pc = "done"]
    /\ UNCHANGED <<phase, stats>>
    /\ TrackUnchanged

\* The fetch phase ends, with every record resolved or by the region
\* timeout: `finally` cancels the task and logs the closing PROGRESS line.
TrackFetchEnds ==
    /\ phase = "Tracking"
    /\ phase' = "Tracked"
    /\ tracker' = [tracker EXCEPT !.pc = IF @ = "done" THEN "done" ELSE "cancelled",
                                  !.final = TRUE]
    /\ UNCHANGED stats
    /\ TrackUnchanged

TrackNext ==
    \/ Complete
    \/ TrackSample
    \/ TrackFetchEnds

TrackSpec == TrackInit /\ [][TrackNext]_vars

\* What the task does log: the sampled counts that are multiples of
\* PROGRESS_STEP, each once, in growing order.
TrackerLogsSampledMultiples ==
    /\ \A p \in 1..Len(tracker.events) : tracker.events[p] % PROGRESS_STEP = 0
    /\ \A p, q \in 1..Len(tracker.events) :
          p < q => tracker.events[p] < tracker.events[q]

\* C30: a sample of the task at which the completed count has passed a
\* multiple of PROGRESS_STEP since the previous sample (reached it or
\* jumped over it) logs a progress event.
C30_EventOnCrossing ==
    [][(/\ tracker'.pc = "sleep"
        /\ tracker.last_sample >= 0
        /\ \E m \in 1..stats.total :
              /\ m % PROGRESS_STEP = 0
              /\ tracker.last_sample < m
              /\ m <= tracker'.last_sample)
       => (Len(tracker'.events) = Len(tracker.events) + 1)]_vars

----------------------------------------------------------------------------
(* The engine's variables at rest, for the specifications of one part *)

EngineIdle(ph, st) ==
    /\ region_idx = 1
    /\ account_files = [r \in 1..NumRegions |-> 0]
    /\ phase = ph
    /\ valid_accounts = << >>
    /\ api_distribution = distribute_accounts_across_apis(<< >>)
    /\ stats = st
    /\ rate_limit_manager = RateLimitManager_init
    /\ pause_event = FALSE
    /\ api_pc = [i \in Apis |-> "none"]
    /\ batch_idx = [i \in Apis |-> 0]
    /\ pc = [w \in Records |-> "none"]
    /\ attempt = [w \in Records |-> 0]
    /\ region_timed_out = FALSE
    /\ reported = FALSE
    /\ firsts = 0
    /\ pauses = 0
    /\ results = << >>
    /\ token_files = {}
    /\ pushed = << >>
    /\ push_ok = "none"
    /\ run_results = << >>
    /\ sent = [w \in Records |-> {}]
    /\ requests = [w \in Records |-> 0]
    /\ now = 0
    /\ gh = GhIdle
    /\ tracker = TrackerIdle

----------------------------------------------------------------------------
(* process_region from the loaded JSON list to the first requests.          *)
(*                                                                         *)
(* An entry of the list is described by what the filter asks of it: dict,  *)
(* whether it is a mapping; uid and password, whether `'uid' in acc` and   *)
(* `'password' in acc` would be true (they can be for an entry that is no  *)
(* mapping: a list or a string holding the words).  An entry is named by   *)
(* its position in the list.                                               *)

MaxEntries == 3   \* entries of the loaded list

Entries == [dict : BOOLEAN, uid : BOOLEAN, password : BOOLEAN]

EntryLists == UNION {[1..n -> Entries] : n \in 0..MaxEntries}

\* The stats dict as an earlier region of the run left it.
EarlierStats ==
    [EmptyStats EXCEPT !.total = 2, !.completed = 2, !.success = 1,
                       !.failed = 1, !.api_usage = [i \in Apis |->
                                                      IF i = 1 THEN 1 ELSE 0]]

FilterInit ==
    /\ \E st \in {EmptyStats, EarlierStats} : EngineIdle("Loading", st)
    /\ loaded_accounts \in EntryLists
    /\ callbacks = << >>
    /\ host = HostIdle
    /\ logs = LogsIdle
    /\ fb = FbIdle
    /\ backoff = BackoffIdle

is_valid_keys_only(acc) ==
    acc.uid /\ acc.password

\* isinstance(acc, dict) and 'uid' in acc and 'password' in acc
is_valid(acc) ==
    acc.dict /\ acc.uid /\ acc.password

\* [acc for acc in accounts if ...], as the positions kept, in list order.
RECURSIVE Filtered(_, _)
Filtered(accs, n) ==
    IF n = 0 THEN << >>
    ELSE IF is_valid(accs[n]) THEN Append(Filtered(accs, n - 1), n)
    ELSE Filtered(accs, n - 1)

\* process_region up to its first await: the list is filtered; with no
\* valid entry it returns None (run_token_fetch then appends nothing and
\* calls nothing); otherwise the records are distributed and the stats of
\* the region are set.
FilterLoad ==
    /\ phase = "Loading"
    /\ LET valid == Filtered(loaded_accounts, Len(loaded_accounts))
       IN  IF Len(valid) = 0
           THEN /\ phase' = "Skipped"
                /\ UNCHANGED <<valid_accounts, api_distribution, stats, pc>>
           ELSE /\ phase' = "Scheduled"
                /\ valid_accounts' = valid
                /\ api_distribution' = distribute_accounts_across_apis(valid)
                /\ stats' = [stats EXCEPT !.total = Len(valid), !.completed = 0,
                                          !.success = 0, !.failed = 0,
                                          !.timed_out = 0]
                /\ pc' = [w \in Records |->
                            IF \E p \in 1..Len(valid) : valid[p] = w
                            THEN "ready" ELSE "none"]
    /\ UNCHANGED <<region_idx, account_files, rate_limit_manager, pause_event,
                   api_pc, batch_idx, attempt, region_timed_out, reported,
                   firsts, pauses, aggVars, sent, requests, now, gh, tracker,
                   auxVars>>

\* The fetch of a scheduled record issues its first GET.
FilterFetch(w) ==
    /\ phase = "Scheduled"
    /\ pc[w] = "ready"
    /\ pc' = [pc EXCEPT ![w] = "req"]
    /\ Get(w)
    /\ UNCHANGED <<region_idx, account_files, phase, valid_accounts,
                   api_distribution, stats, rate_limit_manager, pause_event,
                   api_pc, batch_idx, attempt, region_timed_out, reported,
                   firsts, pauses, aggVars, now, gh, tracker, auxVars>>

FilterNext ==
    \/ FilterLoad
    \/ \E w \in Records : FilterFetch(w)

FilterSpec == FilterInit /\ [][FilterNext]_vars

\* The positions of the loaded entries that are mappings with both keys.
MappingsWithBothKeys ==
    {p \in 1..Len(loaded_accounts) :
        /\ loaded_accounts[p].dict
        /\ loaded_accounts[p].uid
        /\ loaded_accounts[p].password}

\* C31: once the list is filtered, the scheduled records are exactly the
\* entries that are mappings with a uid and a password key, in list order
\* and once each; stats.total is their number and the shards hold exactly
\* them; a GET has gone out only for such an entry; and a list without such
\* an entry gives no Region Result, no callback and no change of the stats.
C31_OnlyValidScheduled ==
    /\ [](phase # "Loading" =>
            /\ Elems(valid_accounts) = MappingsWithBothKeys
            /\ Distinct(valid_accounts)
            /\ \A p, q \in 1..Len(valid_accounts) :
                  p < q => valid_accounts[p] < valid_accounts[q]
            /\ phase = "Scheduled" =>
                  /\ stats.total = Cardinality(MappingsWithBothKeys)
                  /\ UNION {Elems(api_distribution[i].accounts_group) : i \in Apis}
                        = MappingsWithBothKeys
            /\ \A w \in Records :
                  (sent[w] # {} \/ pc[w] # "none") => w \in MappingsWithBothKeys
            /\ (phase = "Skipped") <=> (MappingsWithBothKeys = {}))
    /\ [][(phase = "Loading" /\ MappingsWithBothKeys = {}) =>
             /\ phase' = "Skipped"
             /\ stats' = stats
             /\ run_results' = run_results
             /\ callbacks' = callbacks]_vars

\* A list with a valid entry next to an entry that has both words but is no
\* mapping: the valid ones have all been requested, one record is counted.
C31_Witness ==
    /\ phase = "Scheduled"
    /\ Len(loaded_accounts) = MaxEntries
    /\ stats.total = 1
    /\ \E p \in 1..Len(loaded_accounts) :
          /\ ~loaded_accounts[p].dict
          /\ loaded_accounts[p].uid
          /\ loaded_accounts[p].password
    /\ \A w \in MappingsWithBothKeys : sent[w] # {}

----------------------------------------------------------------------------
(* run_token_fetch with a completion callback that may raise.  The fetches *)
(* are answered with a token at once or cut off by the region timeout.     *)

CallbackNext ==
    \/ StartRegion
    \/ SkipRegion
    \/ \E i \in Apis : ApiStart(i)
    \/ \E i \in Apis : ApiGatherDone(i)
    \/ \E i \in Apis : ApiDelayDone(i)
    \/ \E w \in Records : StartFetch(w)
    \/ \E w \in Records : RecvResponse(w, "token")
    \/ FetchDone
    \/ RegionTimeout
    \/ SaveLocal
    \/ \E ok \in BOOLEAN : PushDone(ok)
    \/ \E cb \in {"returns", "raises"} : FinishRegion(cb)
    \/ FinishRun

CallbackSpec == Init /\ [][CallbackNext]_vars

\* C32: the callback has been called once for each Region Result in the
\* run's results list, in the same order, with that result, whether the
\* call returned or raised; a call is made in the step in which a region
\* returns its result, when no fetch of it is left and before the next
\* region is started; and after the call, raising or not, the run is
\* between regions with the next account file to go.
C32_CallbackPerResult ==
    /\ [](/\ Len(callbacks) = Len(run_results)
          /\ \A k \in 1..Len(callbacks) : callbacks[k].result = run_results[k]
          /\ \A k, l \in 1..Len(callbacks) :
                k < l => callbacks[k].result.region < callbacks[l].result.region
          /\ Len(run_results) < region_idx)
    /\ [][callbacks' # callbacks =>
             /\ phase = "Returning"
             /\ callbacks' = Append(callbacks, callbacks'[Len(callbacks')])
             /\ callbacks'[Len(callbacks')].result = RegionResult
             /\ run_results' = Append(run_results, RegionResult)
             /\ phase' = "Idle"
             /\ region_idx' = region_idx + 1
             /\ \A w \in Records : pc'[w] = "none"]_vars

\* The callback raised for the first region; the second region has been
\* processed all the same, its callback has returned and the run is over
\* with both results.
C32_Witness ==
    /\ phase = "Finished"
    /\ Len(run_results) = 2
    /\ Len(callbacks) = 2
    /\ callbacks[1].outcome = "raises"
    /\ callbacks[2].outcome = "returns"
    /\ run_results[1].success >= 1

----------------------------------------------------------------------------
(* BATCH_DELAY *)

\* C33: an endpoint coroutine is in its BATCH_DELAY sleep only after the
\* batch before it has fully resolved and when another batch follows; the
\* next batch is started only out of that sleep; and after the last batch
\* of the shard the coroutine ends without the sleep.
C33_DelayBetweenBatches ==
    /\ [](\A i \in Apis :
            api_pc[i] = "delay" =>
                /\ \A w \in Batch(i, batch_idx[i]) : pc[w] \in Resolved
                /\ batch_idx[i] + BATCH_SIZE < Len(Shard(i)))
    /\ [][(phase = "Fetching" /\ phase' = "Fetching") =>
             \A i \in Apis :
                /\ batch_idx'[i] # batch_idx[i] =>
                      /\ api_pc[i] = "delay"
                      /\ batch_idx'[i] = batch_idx[i] + BATCH_SIZE
                /\ (api_pc[i] = "gather" /\ api_pc'[i] # "gather") =>
                      api_pc'[i] = IF batch_idx[i] + BATCH_SIZE < Len(Shard(i))
                                   THEN "delay" ELSE "done"]_vars

\* An endpoint whose shard is two full batches has slept once, between
\* them, and ended right after the second.
C33_Witness ==
    /\ phase = "Fetching"
    /\ \E i \in Apis :
          /\ Len(Shard(i)) = 2 * BATCH_SIZE
          /\ batch_idx[i] = BATCH_SIZE
          /\ api_pc[i] = "done"

----------------------------------------------------------------------------
(* The delay before an attempt, as fetch_token and push_to_github compute   *)
(* it: min(INITIAL_DELAY * 2 ** (attempt - 1), MAX_DELAY) +                 *)
(* random.uniform(0, 5), in floating point.                                 *)
(*                                                                         *)
(* Floats are binary with a significand of PRECISION bits (53 in Python),  *)
(* rounded to nearest, ties to even.  A number of seconds is held as its   *)
(* multiple of 2^-PRECISION, so random.random(), which is k * 2^-PRECISION *)
(* for some k below 2^PRECISION, is held as k.  backoff holds the loop of  *)
(* who ("fetch_token" or "push_to_github"): attempt, pc ("loop" at the top *)
(* of an iteration, "sleep" in asyncio.sleep(delay), "request", "returned")*)
(* and the delay of the iteration.                                         *)

PRECISION == 8                          \* bits of a float's significand
CONFIGURED_GITHUB_MAX_RETRIES == 15     \* GITHUB_MAX_RETRIES, unscaled

Ulps == Pow2(PRECISION)

\* The exponent of the highest bit of x >= 1.
RECURSIVE Log2(_)
Log2(x) == IF x < 2 THEN 0 ELSE 1 + Log2(x \div 2)

\* x rounded to a float: its PRECISION highest bits, nearest, ties to even.
fl(x) ==
    IF x < Ulps THEN x
    ELSE LET sh == Log2(x) - PRECISION + 1
             q == x \div Pow2(sh)
             rem == x % Pow2(sh)
         IN  IF 2 * rem > Pow2(sh) \/ (2 * rem = Pow2(sh) /\ q % 2 = 1)
             THEN (q + 1) * Pow2(sh)
             ELSE q * Pow2(sh)

\* random.uniform(a, b) is a + (b - a) * self.random(), for random() = k.
random_uniform(a, b, k) ==
    fl(a * Ulps + fl((b - a) * k))

\* base_delay + random.uniform(0, 5)
backoff_delay(k, r) ==
    fl(BaseDelay(k) * Ulps + random_uniform(0, JITTER, r))

\* range(MAX_RETRIES), range(GITHUB_MAX_RETRIES)
Attempts(who) ==
    IF who = "fetch_token" THEN CONFIGURED_MAX_RETRIES
    ELSE CONFIGURED_GITHUB_MAX_RETRIES

BackoffInit ==
    /\ EngineIdle("Backoff", EmptyStats)
    /\ loaded_accounts = << >>
    /\ callbacks = << >>
    /\ host = HostIdle
    /\ logs = LogsIdle
    /\ fb = FbIdle
    /\ \E who \in {"fetch_token", "push_to_github"} :
          backoff = [BackoffIdle EXCEPT !.pc = "loop", !.who = who]

BackoffUnchanged ==
    UNCHANGED <<region_idx, account_files, phase, valid_accounts,
                api_distribution, stats, rate_limit_manager, pause_event,
                api_pc, batch_idx, pc, attempt, region_timed_out, reported,
                firsts, pauses, aggVars, sent, requests, now, gh, tracker,
                loaded_accounts, callbacks, host, logs, fb>>

\* An iteration starts: `if attempt > 0:` the delay is computed, with r what
\* random() returns, and the sleep starts; attempt 0 goes to its request.
BackoffAttempt(r) ==
    /\ phase = "Backoff"
    /\ backoff.pc = "loop"
    /\ backoff' = IF backoff.attempt > 0
                  THEN [backoff EXCEPT !.delay = backoff_delay(backoff.attempt, r),
                                       !.pc = "sleep"]
                  ELSE [backoff EXCEPT !.delay = 0, !.pc = "request"]
    /\ BackoffUnchanged

\* asyncio.sleep(delay) returns.
BackoffSlept ==
    /\ phase = "Backoff"
    /\ backoff.pc = "sleep"
    /\ backoff' = [backoff EXCEPT !.pc = "request"]
    /\ BackoffUnchanged

\* The attempt fails: the loop goes on, or ends after its last attempt.
BackoffFailed ==
    /\ phase = "Backoff"
    /\ backoff.pc = "request"
    /\ backoff' = IF backoff.attempt + 1 < Attempts(backoff.who)
                  THEN [backoff EXCEPT !.attempt = @ + 1, !.pc = "loop"]
                  ELSE [backoff EXCEPT !.pc = "returned"]
    /\ BackoffUnchanged

BackoffNext ==
    \/ \E r \in 0..(Ulps - 1) : BackoffAttempt(r)
    \/ BackoffSlept
    \/ BackoffFailed

BackoffSpec == BackoffInit /\ [][BackoffNext]_vars

\* min(5 * 2^(k-1), 120) for k >= 1, in seconds.
ClaimedBase(k) ==
    IF INITIAL_DELAY * Pow2(k - 1) < MAX_DELAY
    THEN INITIAL_DELAY * Pow2(k - 1) ELSE MAX_DELAY

\* C34 as stated: the wait before attempt 0 is 0, and the wait before an
\* attempt k >= 1 is at least min(5 * 2^(k-1), 120) and less than that
\* plus 5, in fetch_token and in push_to_github.
C34_HalfOpenInterval ==
    backoff.pc \in {"sleep", "request"} =>
        IF backoff.attempt = 0 THEN backoff.delay = 0
        ELSE /\ ClaimedBase(backoff.attempt) * Ulps <= backoff.delay
             /\ backoff.delay < (ClaimedBase(backoff.attempt) + JITTER) * Ulps

\* C34, amended: the wait before attempt 0 is 0, and the wait before an
\* attempt k >= 1 is at least min(5 * 2^(k-1), 120) and at most that plus
\* 5, the upper end included, in fetch_token and in push_to_github.
C34_ClosedInterval ==
    backoff.pc \in {"sleep", "request"} =>
        IF backoff.attempt = 0 THEN backoff.delay = 0
        ELSE /\ ClaimedBase(backoff.attempt) * Ulps <= backoff.delay
             /\ backoff.delay <= (ClaimedBase(backoff.attempt) + JITTER) * Ulps

\* push_to_github sleeps exactly 125 s before one of its capped attempts.
C34_Witness ==
    /\ backoff.who = "push_to_github"
    /\ backoff.pc = "sleep"
    /\ backoff.attempt >= 6
    /\ backoff.delay = (MAX_DELAY + JITTER) * Ulps

\* C35: a step of the tracker leaves the stats as they are; a fetch that
\* is about to resolve can do so whatever the tracker is doing (the tracker
\* has had its first run before any fetch, and holds nothing a fetch needs);
\* and once the fetch phase has ended, with all records resolved or before
\* that by the region timeout, the task is cancelled or has ended and takes
\* no further step.
C35_TrackerReadOnly ==
    /\ [][tracker' # tracker => stats' = stats]_vars
    /\ []((phase = "Tracking" /\ tracker.pc # "created"
             /\ stats.completed < stats.total) => ENABLED Complete)
    /\ [](phase = "Tracked" => tracker.pc \in {"cancelled", "done"})
    /\ [][phase = "Tracked" => tracker' = tracker]_vars

\* The fetch phase was ended by the region timeout with records unresolved:
\* the task, which had logged 0 and 10, is cancelled.
C35_Witness ==
    /\ phase = "Tracked"
    /\ stats.completed < stats.total
    /\ stats.completed > PROGRESS_STEP
    /\ tracker.pc = "cancelled"
    /\ tracker.events = <<0, PROGRESS_STEP>>

----------------------------------------------------------------------------
(* fetch_token of app_for_terminal.py (the fallback variant) for one       *)
(* record.                                                                 *)
(*                                                                         *)
(* fb holds the locals attempt and api_index (from 0, as in the source),   *)
(* pc ("ready" before the first run, "req" in the GET, "pause_sleep" in the *)
(* 5 s pause, "buffer_sleep" in the 0.1 s buffer, "sleep" in the backoff,   *)
(* "returned"), what it returned in ret ("token" or "None"), and history:  *)
(* sent, per attempt the index of the endpoint its GET went to; failures,  *)
(* per failed attempt what made it fail.                                   *)

FallbackRetries == 4   \* MAX_RETRIES of app_for_terminal.py

\* What can come of a GET: a token, or a failure: 200 without a token, 429,
\* 500, another status, ClientConnectorError, asyncio.TimeoutError,
\* json.JSONDecodeError, any other exception.
FbFailures ==
    {"no_token", "429", "500", "other", "conn_error", "timeout",
     "decode_error", "unexpected"}

FallbackInit ==
    /\ EngineIdle("Fallback", EmptyStats)
    /\ loaded_accounts = << >>
    /\ callbacks = << >>
    /\ host = HostIdle
    /\ logs = LogsIdle
    /\ fb = [FbIdle EXCEPT !.pc = "ready"]
    /\ backoff = BackoffIdle

FallbackUnchanged ==
    UNCHANGED <<region_idx, account_files, phase, valid_accounts,
                api_distribution, rate_limit_manager, pause_event,
                api_pc, batch_idx, pc, attempt, region_timed_out, reported,
                firsts, pauses, aggVars, sent, requests, now, gh, tracker,
                loaded_accounts, callbacks, host, logs, backoff>>

\* The GET of the attempt goes to API_URLS[api_index].
FbGet(f) ==
    [f EXCEPT !.sent = Append(@, f.api_index), !.pc = "req"]

\* The first run: attempt 0 has no backoff.
FbStart ==
    /\ phase = "Fallback"
    /\ fb.pc = "ready"
    /\ fb' = FbGet(fb)
    /\ UNCHANGED stats
    /\ FallbackUnchanged

FbSwitch_on_overload_only(f, r) ==
    IF r \in {"429", "500"} THEN (f.api_index + 1) % Len(API_URLS)
    ELSE f.api_index

\* should_switch_api is set on every path that does not return the token:
\* api_index = (api_index + 1) % len(API_URLS)
FbSwitch(f, r) ==
    (f.api_index + 1) % Len(API_URLS)

\* The end of a failed iteration, from the switch on: the next endpoint is
\* chosen, and after the last attempt the loop breaks, the record is
\* counted as failed and None returned.
FbIterationEnd(f, r) ==
    LET g == [f EXCEPT !.api_index = FbSwitch(f, r),
                       !.failures = Append(@, r)]
    IN  IF f.attempt = FallbackRetries - 1
        THEN [g EXCEPT !.pc = "returned", !.ret = "None"]
        ELSE [g EXCEPT !.attempt = @ + 1, !.pc = "sleep"]

FbStatsAfter(f) ==
    IF f.ret = "None"
    THEN [stats EXCEPT !.failed = @ + 1, !.completed = @ + 1]
    ELSE stats

\* The GET is answered with a token.
FbRecvToken ==
    /\ phase = "Fallback"
    /\ fb.pc = "req"
    /\ fb' = [fb EXCEPT !.pc = "returned", !.ret = "token"]
    /\ stats' = [stats EXCEPT !.success = @ + 1, !.completed = @ + 1]
    /\ FallbackUnchanged

\* The GET fails with r.  After a 429 or 500 the global manager is asked:
\* the first reporter of the process pauses 5 s ("first"); another one
\* sleeps 0.1 s if the pause signal is set ("buffer") or goes on at once
\* ("on"), which is also what every other failure does.
FbRecvFailure(r, way) ==
    /\ phase = "Fallback"
    /\ fb.pc = "req"
    /\ r \in FbFailures
    /\ way \in IF r \in {"429", "500"} THEN {"first", "buffer", "on"} ELSE {"on"}
    /\ fb' = CASE way = "first" -> [fb EXCEPT !.pc = "pause_sleep",
                                              !.failures = Append(@, r)]
               [] way = "buffer" -> [fb EXCEPT !.pc = "buffer_sleep",
                                               !.failures = Append(@, r)]
               [] OTHER -> FbIterationEnd(fb, r)
    /\ stats' = FbStatsAfter(fb')
    /\ FallbackUnchanged

\* The 5 s pause or the 0.1 s buffer after a 429 or 500 is over: the
\* iteration ends.
FbPauseDone ==
    /\ phase = "Fallback"
    /\ fb.pc \in {"pause_sleep", "buffer_sleep"}
    /\ LET r == fb.failures[Len(fb.failures)]
           f == [fb EXCEPT !.failures = SubSeq(@, 1, Len(@) - 1)]
       IN  fb' = FbIterationEnd(f, r)
    /\ stats' = FbStatsAfter(fb')
    /\ FallbackUnchanged

\* The backoff sleep of an attempt after the first is over: its GET goes out.
FbBackoffDone ==
    /\ phase = "Fallback"
    /\ fb.pc = "sleep"
    /\ fb' = FbGet(fb)
    /\ UNCHANGED stats
    /\ FallbackUnchanged

FallbackNext ==
    \/ FbStart
    \/ FbRecvToken
    \/ \E r \in FbFailures, way \in {"first", "buffer", "on"} : FbRecvFailure(r, way)
    \/ FbPauseDone
    \/ FbBackoffDone

FallbackSpec == FallbackInit /\ [][FallbackNext]_vars

\* C36: the GET of attempt a (from 0) went to endpoint a mod k, the first
\* attempt to the first endpoint; and between attempts the endpoint index
\* is the number of failed attempts so far mod k, whatever made them fail.
C36_EndpointCycle ==
    /\ \A a \in 1..Len(fb.sent) : fb.sent[a] = (a - 1) % Len(API_URLS)
    /\ fb.pc \in {"sleep", "returned"} /\ fb.ret # "token" =>
          /\ Len(fb.failures) = Len(fb.sent)
          /\ fb.api_index = Len(fb.failures) % Len(API_URLS)
    /\ fb.pc \in {"req", "pause_sleep", "buffer_sleep"} =>
          Len(fb.sent) = fb.attempt + 1

\* After a 200 without token, a timeout and a 429, the
\* fourth attempt is back at the first endpoint and gets the token.
C36_Witness ==
    /\ fb.ret = "token"
    /\ fb.failures = <<"no_token", "timeout", "429">>
    /\ fb.sent = <<0, 1, 2, 0>>

(***************************************************************************)
(* The web host (src/app.py): job_state, the handler of /api/run and the   *)
(* job it starts, and the LogCollector the job writes to.  Every request   *)
(* and every job thread takes its steps one statement group at a time, in  *)
(* any interleaving the threads of the server allow.                       *)
(***************************************************************************)

\* LogCollector keeps the last max_logs entries and get_recent(count) returns
\* the last count of them; the program has max_logs = 500 and reads
\* get_recent(100), scaled here with the same order RecentCount < max_logs.
max_logs == 5
RecentCount == 3

LogCollector_add(l) ==
    LET n == l.added + 1
        appended == Append(l.logs, n)
    IN  [l EXCEPT !.added = n,
                  !.logs = IF Len(appended) > max_logs
                           THEN Tail(appended) ELSE appended]

LogCollector_clear(l) == [l EXCEPT !.logs = << >>]

get_recent(l, count) ==
    LET n == Len(l.logs)
    IN  SubSeq(l.logs, IF n > count THEN n - count + 1 ELSE 1, n)

HostInit ==
    /\ EngineIdle("Host", EmptyStats)
    /\ loaded_accounts = << >>
    /\ callbacks = << >>
    /\ \E s \in BOOLEAN : host = [HostIdle EXCEPT !.IS_SERVERLESS = s]
    /\ logs = LogsIdle
    /\ fb = FbIdle
    /\ backoff = BackoffIdle

HostUnchanged ==
    UNCHANGED <<region_idx, account_files, phase, valid_accounts,
                api_distribution, stats, rate_limit_manager, pause_event,
                api_pc, batch_idx, pc, attempt, region_timed_out, reported,
                firsts, pauses, aggVars, sent, requests, now, gh, tracker,
                loaded_accounts, callbacks, fb, backoff>>

\* POST /api/run: the kill switch and the token check answer 503 or 401;
\* an authorized request is answered already_running when the status reads
\* running, and otherwise goes on to run_sync_job or to run_async_job, which
\* creates the thread and returns.  Nothing is written to job_state here.
trigger_run(t) ==
    /\ host.pc[t] = "none"
    /\ \E authorized \in BOOLEAN :
         host' = [host EXCEPT !.pc[t] =
                    IF ~authorized THEN "denied"
                    ELSE IF host.status = "running" THEN "already_running"
                    ELSE "started"]
    /\ UNCHANGED logs
    /\ HostUnchanged

\* The first statements of the job: clear the collector, status = running,
\* log the start; then run_token_fetch executes.
JobBegin(t) ==
    /\ host.pc[t] = "started"
    /\ host' = [host EXCEPT !.status = "running", !.pc[t] = "running"]
    /\ logs' = LogCollector_add(LogCollector_clear(logs))
    /\ HostUnchanged

\* What the branches of the try statement log: one entry when the run
\* completed, two in an except clause.
JobLogs(l, outcome) ==
    IF outcome = "completed" THEN LogCollector_add(l)
    ELSE LogCollector_add(LogCollector_add(l))

\* async_wrapper without its finally clause: the thread of a run that
\* raised ends in the except clause.
async_wrapper_end_no_finally(t, outcome) ==
    /\ ~host.IS_SERVERLESS
    /\ host.pc[t] = "running"
    /\ host' = [host EXCEPT !.status = outcome, !.outcome[t] = outcome,
                            !.pc[t] = IF outcome = "error" THEN "done"
                                      ELSE "finally"]
    /\ logs' = JobLogs(logs, outcome)
    /\ HostUnchanged

\* async_wrapper: run_token_fetch returned (status completed) or raised
\* (status error); the finally clause then sleeps 10 seconds.
async_wrapper_end(t, outcome) ==
    /\ ~host.IS_SERVERLESS
    /\ host.pc[t] = "running"
    /\ outcome \in {"completed", "error"}
    /\ host' = [host EXCEPT !.status = outcome, !.outcome[t] = outcome,
                            !.pc[t] = "finally"]
    /\ logs' = JobLogs(logs, outcome)
    /\ HostUnchanged

\* After the 10 seconds: status = idle; then 2 more seconds of sleep.
async_wrapper_reset(t) ==
    /\ host.pc[t] = "finally"
    /\ host' = [host EXCEPT !.status = "idle", !.pc[t] = "reset"]
    /\ UNCHANGED logs
    /\ HostUnchanged

\* After the 2 seconds the thread clears the collector and ends.
async_wrapper_clear(t) ==
    /\ host.pc[t] = "reset"
    /\ host' = [host EXCEPT !.pc[t] = "done"]
    /\ logs' = LogCollector_clear(logs)
    /\ HostUnchanged

\* run_sync_job: wait_for returned, timed out after 50 seconds, or the run
\* raised; the status is set in the matching branch and the request is
\* answered.
run_sync_job_end(t, outcome) ==
    /\ host.IS_SERVERLESS
    /\ host.pc[t] = "running"
    /\ outcome \in {"completed", "timeout", "error"}
    /\ host' = [host EXCEPT !.status = outcome, !.outcome[t] = outcome,
                            !.pc[t] = "returned"]
    /\ logs' = JobLogs(logs, outcome)
    /\ HostUnchanged

JobStep(t) ==
    \/ JobBegin(t)
    \/ \E outcome \in {"completed", "error"} : async_wrapper_end(t, outcome)
    \/ async_wrapper_reset(t)
    \/ async_wrapper_clear(t)
    \/ \E outcome \in {"completed", "timeout", "error"} :
         run_sync_job_end(t, outcome)

HostNext ==
    \/ \E t \in Triggers : trigger_run(t)
    \/ \E t \in Triggers : JobBegin(t)
    \/ \E t \in Triggers, outcome \in {"completed", "error"} :
         async_wrapper_end(t, outcome)
    \/ \E t \in Triggers : async_wrapper_reset(t)
    \/ \E t \in Triggers : async_wrapper_clear(t)
    \/ \E t \in Triggers, outcome \in {"completed", "timeout", "error"} :
         run_sync_job_end(t, outcome)

HostSpec == HostInit /\ [][HostNext]_vars

\* A started job is scheduled and run_token_fetch ends (it returns, raises
\* or is cancelled by wait_for), so each job takes its next step.
HostFairSpec == HostSpec /\ \A t \in Triggers : WF_vars(JobStep(t))

Executing(t) == host.pc[t] = "running"

\* C37: in local mode at most one run executes at a time, and while one
\* executes job_state status is running (so that a trigger is answered
\* already_running).
C37_OneRunAtATime ==
    ~host.IS_SERVERLESS =>
        /\ Cardinality({t \in Triggers : Executing(t)}) <= 1
        /\ (\E t \in Triggers : Executing(t)) => host.status = "running"

\* C38: every run the host started leaves status running: run_sync_job
\* returns with status completed, timeout or error, whichever way
\* run_token_fetch ended; the thread of run_async_job sets status idle after
\* a run that returned and after a run that raised; and every executing run
\* gets there.
C38_RunLeavesRunning ==
    /\ [][\A t \in Triggers :
            (host.pc[t] = "running" /\ host'.pc[t] = "returned")
                => /\ host'.status \in {"completed", "timeout", "error"}
                   /\ host'.status = host'.outcome[t]]_vars
    /\ [][\A t \in Triggers :
            (host.pc[t] = "finally" /\ host'.pc[t] # "finally")
                => (host'.pc[t] = "reset" /\ host'.status = "idle")]_vars
    /\ \A t \in Triggers :
         Executing(t) ~> (host.pc[t] \in {"returned", "reset"})

\* The thread of a run that raised has set the status to idle.
C38_Witness ==
    \E t \in Triggers :
        /\ host.pc[t] = "reset"
        /\ host.outcome[t] = "error"
        /\ host.status = "idle"

(***************************************************************************)
(* The log stream (stream_logs, local mode): one connected client whose    *)
(* generator polls the LogCollector, while the job adds entries and clears *)
(* the collector at the start and at the end of a run.                     *)
(***************************************************************************)

MaxAdds == 6

LogInit ==
    /\ EngineIdle("Logs", EmptyStats)
    /\ loaded_accounts = << >>
    /\ callbacks = << >>
    /\ host = HostIdle
    /\ logs = LogsIdle
    /\ fb = FbIdle
    /\ backoff = BackoffIdle

LogUnchanged ==
    UNCHANGED <<region_idx, account_files, phase, valid_accounts,
                api_distribution, stats, rate_limit_manager, pause_event,
                api_pc, batch_idx, pc, attempt, region_timed_out, reported,
                firsts, pauses, aggVars, sent, requests, now, gh, tracker,
                loaded_accounts, callbacks, host, fb, backoff>>

\* log_collector.add(...), from the job or from run_token_fetch.
LogAdd ==
    /\ logs.added < MaxAdds
    /\ logs' = LogCollector_add(logs)
    /\ LogUnchanged

\* log_collector.clear(), the first statement of a job and the last one of
\* async_wrapper.
LogClear ==
    /\ logs' = LogCollector_clear(logs)
    /\ LogUnchanged

\* One round of the generator's loop: read get_recent(100), and when it is
\* longer than last_count yield logs[last_count:] and remember its length.
generate ==
    LET recent == get_recent(logs, RecentCount)
        current_count == Len(recent)
    IN  /\ logs' = IF current_count > logs.last_count
                   THEN [logs EXCEPT
                           !.delivered = logs.delivered \o
                              SubSeq(recent, logs.last_count + 1,
                                     current_count),
                           !.last_count = current_count]
                   ELSE logs
        /\ LogUnchanged

LogNext ==
    \/ LogAdd
    \/ LogClear
    \/ generate

LogSpec == LogInit /\ [][LogNext]_vars

\* C39: the client receives the entries once each and in the order they were
\* added, none skipped: what has been delivered is always the first entries
\* added, the collector holding more than the recent window or having been
\* cleared included.
C39_DeliveredInOrder ==
    \A i \in 1..Len(logs.delivered) : logs.delivered[i] = i

\* What the generator does guarantee: entries are yielded in increasing
\* order, so none is delivered twice.
LogStreamIncreasing ==
    \A i, j \in 1..Len(logs.delivered) :
        i < j => logs.delivered[i] < logs.delivered[j]

\* Once last_count has reached the size of the recent window, the length of
\* get_recent never exceeds it again and the client receives nothing more.
LogStreamStopsAtWindow ==
    [][logs.last_count = RecentCount
         => logs'.delivered = logs.delivered]_vars

====
